---- MODULE Spec2Model ----
(***************************************************************************)
(* kontext: the kubeconfig mutation engine of pkg/kubeconfig.              *)
(*                                                                         *)
(* The state is the kubeconfig file.  Every operation is one invocation:   *)
(* it loads the file (clientcmd.LoadFromFile), edits the api.Config in     *)
(* memory and writes the whole document back (clientcmd.WriteToFile).      *)
(***************************************************************************)
EXTENDS Naturals, FiniteSets, Sequences, TLC

(* ------------------------------ bounds -------------------------------- *)

\* Number of context names a document may hold.
MaxCtx == 2

\* Length of the longest list handed to a sort function.
MaxLen == 3

CtxPool == <<"a", "b", "c", "d", "e">>

\* Names a context entry may carry.
CtxNames == {CtxPool[i] : i \in 1..MaxCtx}

\* Values of a context's namespace field.
Namespaces == {"", "n"}

\* Arguments the commands pass as a context name: every name of the pool
\* (present in the document or not) and the empty string.
NameArgs == CtxNames \cup {""}

(* --------------------------- the data model --------------------------- *)

\* api.Context: the three fields the package reads or writes.
Context(cluster, authInfo, namespace) ==
    [Cluster |-> cluster, AuthInfo |-> authInfo, Namespace |-> namespace]

\* api.Config as the package uses it.  Contexts is a map from name to
\* context; Clusters and AuthInfos are maps to opaque payloads the package
\* never reads, so only their key sets are kept.
Config(contexts, clusters, authInfos, current) ==
    [Contexts |-> contexts, Clusters |-> clusters, AuthInfos |-> authInfos,
     CurrentContext |-> current]

\* api.NewConfig(): empty maps, no current context.
NewConfig == Config(<<>>, {}, {}, "")

\* Every document whose contexts draw their cluster and user fields from
\* the given names and whose entries are one of the given key sets.  A
\* context may name a cluster or a user that has no entry, an entry may be
\* referenced by no context, and current-context may name a context that is
\* not there.  The empty string is a legal value of a cluster or user field
\* and a legal name of an entry.
ConfigsOver(clusterNames, clusterKeys, authInfoNames, authInfoKeys) ==
    { Config(ctxs, cl, au, cur) :
        ctxs \in UNION {[D -> [Cluster : clusterNames, AuthInfo : authInfoNames,
                               Namespace : Namespaces]] : D \in SUBSET CtxNames},
        cl \in clusterKeys,
        au \in authInfoKeys,
        cur \in NameArgs }

\* The initial documents: those that vary in their clusters (every context
\* has the one user u) and those that vary in their users (every context
\* has the one cluster x).
Configs ==
    ConfigsOver({"", "x", "y"}, SUBSET {"", "x", "y"}, {"u"}, {{"u"}})
    \cup ConfigsOver({"x"}, {{"x"}}, {"", "u", "v"}, SUBSET {"", "u", "v"})

(* ------------------------- the file on disk --------------------------- *)

\* The v1 wire form clientcmd.WriteToFile serialises: contexts, clusters
\* and users are lists of named entries, one per key of the map and sorted
\* by name, so a list is kept as its entries by name; a context entry holds
\* cluster, user and namespace; current-context is a scalar.
NamedContext(c) ==
    [cluster |-> c.Cluster, user |-> c.AuthInfo, namespace |-> c.Namespace]

Write(config) ==
    [contexts |-> [n \in DOMAIN config.Contexts |-> NamedContext(config.Contexts[n])],
     clusters |-> config.Clusters,
     users |-> config.AuthInfos,
     currentContext |-> config.CurrentContext]

\* A file of length zero: what O_TRUNC leaves before the bytes are written.
EmptyFile ==
    [contexts |-> <<>>, clusters |-> {}, users |-> {}, currentContext |-> ""]

\* clientcmd.LoadFromFile: the lists become maps again (a file of length
\* zero yields api.NewConfig()).
LoadFromFile(f) ==
    IF f = EmptyFile
    THEN NewConfig
    ELSE Config([n \in DOMAIN f.contexts |->
                    Context(f.contexts[n].cluster, f.contexts[n].user,
                            f.contexts[n].namespace)],
                f.clusters, f.users, f.currentContext)

VARIABLES
    file,      \* the content of the kubeconfig file
    last,      \* the last invocation: operation, arguments, current-context
               \* before it, and the error it returned ("" for none)
    released,  \* for each cluster name, how many contexts naming it have been
               \* deleted since the first such deletion found its entry present
    mem,       \* two invocations in flight: what each has loaded and how far
               \* it has got (used when their steps interleave)
    ui,        \* a call of a ui sort function: its arguments, the caller's
               \* slice and the slice returned
    answer     \* a query of the file: which one, its arguments, how the
               \* cluster side behaved and what came back

vars == <<file, last, released, mem, ui, answer>>

\* What an invocation that runs alone, start to end, leaves alone.
offstage == <<mem, ui, answer>>

\* The value of a variable the behaviours at hand make no use of.
Unused == <<>>

\* GetKubeConfig: load the file afresh.
GetKubeConfig == LoadFromFile(file)

(* ------------------------ document invariants ------------------------- *)

\* Every context's cluster and user name has an entry.
RefsResolve(config) ==
    \A n \in DOMAIN config.Contexts :
        /\ config.Contexts[n].Cluster \in config.Clusters
        /\ config.Contexts[n].AuthInfo \in config.AuthInfos

\* current-context is unset or names a context of the document.
CurrentResolves(config) ==
    config.CurrentContext = "" \/ config.CurrentContext \in DOMAIN config.Contexts

(* ----------------------------- saving --------------------------------- *)

\* How clientcmd.WriteToFile can end.  It serialises the document and calls
\* os.WriteFile, which opens the target with O_TRUNC and then writes:
\*   "ok"     the bytes are written;
\*   "open"   the open fails, the file is untouched;
\*   "write"  the write fails (or the process stops) after the truncation.
SaveOutcomes == {"ok", "open", "write"}

WriteToFile(config, outcome) ==
    CASE outcome = "ok" -> Write(config)
      [] outcome = "open" -> file
      [] outcome = "write" -> EmptyFile

SaveError(outcome) == IF outcome = "ok" THEN "" ELSE "SaveError"

Invocation(op, name, ns, err) ==
    [op |-> op, name |-> name, ns |-> ns, err |-> err,
     current |-> file.currentContext]

(* ---------------------------- operations ------------------------------ *)

\* A switch that also resets the namespace of the context it selects.
SetCurrentResetNamespace(config, contextName) ==
    [config EXCEPT !.CurrentContext = contextName,
                   !.Contexts[contextName].Namespace = ""]

\* A switch that unsets current-context when asked for the current one.
SetCurrentToggle(config, contextName) ==
    [config EXCEPT !.CurrentContext =
        IF config.CurrentContext = contextName THEN "" ELSE contextName]

\* SetCurrent: the in-memory edit of SwitchContext.
SetCurrent(config, contextName) ==
    [config EXCEPT !.CurrentContext = contextName]

SwitchContext(contextName) ==
    LET config == GetKubeConfig
    IN  IF contextName \notin DOMAIN config.Contexts
        THEN /\ last' = Invocation("SwitchContext", contextName, "", "NotFound")
             /\ UNCHANGED <<file, released, offstage>>
        ELSE \E outcome \in SaveOutcomes :
             /\ file' = WriteToFile(SetCurrent(config, contextName), outcome)
             /\ last' = Invocation("SwitchContext", contextName, "", SaveError(outcome))
             /\ UNCHANGED <<released, offstage>>

\* A scan that misses every reference.
isClusterReferencedNever(config, name) == FALSE

\* isClusterReferenced / isAuthInfoReferenced: the closures of DeleteContext,
\* scanning the contexts that remain.
isClusterReferenced(config, name) ==
    IF name = ""
    THEN FALSE
    ELSE \E n \in DOMAIN config.Contexts : config.Contexts[n].Cluster = name

\* The user scan with the cluster scan's comparison pasted in.
isAuthInfoReferencedByCluster(config, name) ==
    IF name = ""
    THEN FALSE
    ELSE \E n \in DOMAIN config.Contexts : config.Contexts[n].Cluster = name

isAuthInfoReferenced(config, name) ==
    IF name = ""
    THEN FALSE
    ELSE \E n \in DOMAIN config.Contexts : config.Contexts[n].AuthInfo = name

\* A deletion that leaves current-context as it was.
RemoveContextKeepCurrent(config, contextName) ==
    [config EXCEPT
        !.Contexts = [n \in (DOMAIN config.Contexts) \ {contextName} |-> config.Contexts[n]]]

\* A deletion that always clears current-context.
RemoveContextClearCurrent(config, contextName) ==
    [config EXCEPT
        !.Contexts = [n \in (DOMAIN config.Contexts) \ {contextName} |-> config.Contexts[n]],
        !.CurrentContext = ""]

\* A deletion that takes every context of the same cluster along.
RemoveContextAndSiblings(config, contextName) ==
    [config EXCEPT
        !.Contexts = [n \in {m \in DOMAIN config.Contexts :
                                config.Contexts[m].Cluster
                                    # config.Contexts[contextName].Cluster}
                      |-> config.Contexts[n]],
        !.CurrentContext = IF config.CurrentContext = contextName
                           THEN "" ELSE config.CurrentContext]

\* delete(config.Contexts, contextName) and the reset of current-context.
RemoveContext(config, contextName) ==
    [config EXCEPT
        !.Contexts = [n \in (DOMAIN config.Contexts) \ {contextName} |-> config.Contexts[n]],
        !.CurrentContext = IF config.CurrentContext = contextName
                           THEN "" ELSE config.CurrentContext]

\* A cleanup that never removes the cluster entry.
CleanClusterNever(config, clusterName) == config

\* Clean up the cluster if no longer referenced.
CleanCluster(config, clusterName) ==
    IF clusterName # "" /\ ~isClusterReferenced(config, clusterName)
    THEN [config EXCEPT !.Clusters = config.Clusters \ {clusterName}]
    ELSE config

\* Clean up the authInfo if no longer referenced.
CleanAuthInfo(config, authInfoName) ==
    IF authInfoName # "" /\ ~isAuthInfoReferenced(config, authInfoName)
    THEN [config EXCEPT !.AuthInfos = config.AuthInfos \ {authInfoName}]
    ELSE config

\* A deletion that prunes every entry no remaining context names.
DeletedPruneAll(config, contextName) ==
    LET rest == RemoveContext(config, contextName)
    IN  [rest EXCEPT
            !.Clusters = {X \in rest.Clusters :
                            \E n \in DOMAIN rest.Contexts : rest.Contexts[n].Cluster = X},
            !.AuthInfos = {U \in rest.AuthInfos :
                            \E n \in DOMAIN rest.Contexts : rest.Contexts[n].AuthInfo = U}]

\* A deletion that cleans up the cluster and the user together or not at
\* all: both entries go only when no remaining context names either.
DeletedTogether(config, contextName) ==
    LET ctx == config.Contexts[contextName]
        rest == RemoveContext(config, contextName)
    IN  IF \/ isClusterReferenced(rest, ctx.Cluster)
           \/ isAuthInfoReferenced(rest, ctx.AuthInfo)
        THEN rest
        ELSE CleanAuthInfo(CleanCluster(rest, ctx.Cluster), ctx.AuthInfo)

\* The in-memory edit of DeleteContext, for an existing context.
Deleted(config, contextName) ==
    LET ctx == config.Contexts[contextName]
    IN  CleanAuthInfo(CleanCluster(RemoveContext(config, contextName), ctx.Cluster),
                      ctx.AuthInfo)

\* The record of deletions: a cluster name is followed from the first
\* successful deletion of a context naming it that finds its entry present.
Release(config, clusterName) ==
    IF clusterName \in DOMAIN released
    THEN [released EXCEPT ![clusterName] = @ + 1]
    ELSE IF clusterName \in config.Clusters
    THEN (clusterName :> 1) @@ released
    ELSE released

\* A DeleteContext that saves before it looks the context up.
DeleteContextSaveFirst(contextName) ==
    LET config == GetKubeConfig
    IN  \E outcome \in SaveOutcomes :
        IF contextName \notin DOMAIN config.Contexts
        THEN /\ file' = WriteToFile(config, outcome)
             /\ last' = Invocation("DeleteContext", contextName, "", "NotFound")
             /\ UNCHANGED <<released, offstage>>
        ELSE /\ file' = WriteToFile(Deleted(config, contextName), outcome)
             /\ last' = Invocation("DeleteContext", contextName, "", SaveError(outcome))
             /\ released' = IF outcome = "ok"
                            THEN Release(config, config.Contexts[contextName].Cluster)
                            ELSE released
             /\ UNCHANGED offstage

DeleteContext(contextName) ==
    LET config == GetKubeConfig
    IN  IF contextName \notin DOMAIN config.Contexts
        THEN /\ last' = Invocation("DeleteContext", contextName, "", "NotFound")
             /\ UNCHANGED <<file, released, offstage>>
        ELSE \E outcome \in SaveOutcomes :
             /\ file' = WriteToFile(Deleted(config, contextName), outcome)
             /\ last' = Invocation("DeleteContext", contextName, "", SaveError(outcome))
             /\ released' = IF outcome = "ok"
                            THEN Release(config, config.Contexts[contextName].Cluster)
                            ELSE released
             /\ UNCHANGED offstage

\* The context SetNamespaceForContext works on: the current one if none is named.
Resolve(config, contextName) ==
    IF contextName = "" THEN config.CurrentContext ELSE contextName

\* An update that writes the namespace into every context.
SetNsEverywhere(config, contextName, namespace) ==
    [config EXCEPT !.Contexts =
        [n \in DOMAIN config.Contexts |->
            [config.Contexts[n] EXCEPT !.Namespace = namespace]]]

SetNs(config, contextName, namespace) ==
    [config EXCEPT !.Contexts[contextName].Namespace = namespace]

\* A SetNamespaceForContext that saves before it validates the name.
SetNamespaceForContextSaveFirst(contextName, namespace) ==
    LET config == GetKubeConfig
        name == Resolve(config, contextName)
    IN  \E outcome \in SaveOutcomes :
        IF name = ""
        THEN /\ file' = WriteToFile(config, outcome)
             /\ last' = Invocation("SetNamespaceForContext", contextName, namespace,
                                   "NoCurrentContext")
             /\ UNCHANGED <<released, offstage>>
        ELSE IF name \notin DOMAIN config.Contexts
        THEN /\ file' = WriteToFile(config, outcome)
             /\ last' = Invocation("SetNamespaceForContext", contextName, namespace,
                                   "NotFound")
             /\ UNCHANGED <<released, offstage>>
        ELSE /\ file' = WriteToFile(SetNs(config, name, namespace), outcome)
             /\ last' = Invocation("SetNamespaceForContext", contextName, namespace,
                                   SaveError(outcome))
             /\ UNCHANGED <<released, offstage>>

SetNamespaceForContext(contextName, namespace) ==
    LET config == GetKubeConfig
        name == Resolve(config, contextName)
    IN  IF name = ""
        THEN /\ last' = Invocation("SetNamespaceForContext", contextName, namespace,
                                   "NoCurrentContext")
             /\ UNCHANGED <<file, released, offstage>>
        ELSE IF name \notin DOMAIN config.Contexts
        THEN /\ last' = Invocation("SetNamespaceForContext", contextName, namespace,
                                   "NotFound")
             /\ UNCHANGED <<file, released, offstage>>
        ELSE \E outcome \in SaveOutcomes :
             /\ file' = WriteToFile(SetNs(config, name, namespace), outcome)
             /\ last' = Invocation("SetNamespaceForContext", contextName, namespace,
                                   SaveError(outcome))
             /\ UNCHANGED <<released, offstage>>

\* SetNamespace: the namespace of the current context.
SetNamespace(namespace) == SetNamespaceForContext("", namespace)

(* ------------------------------ queries ------------------------------- *)

\* What a query returns: a value and an error ("" for nil).
Result(value, err) == [value |-> value, err |-> err]

\* A GetCurrentNamespace that answers "default" for a current-context that
\* names no context.
GetCurrentNamespaceLenient ==
    LET config == GetKubeConfig
        currentContext == config.CurrentContext
    IN  IF currentContext = ""
        THEN Result("", "NoCurrentContext")
        ELSE IF currentContext \notin DOMAIN config.Contexts
        THEN Result("default", "")
        ELSE IF config.Contexts[currentContext].Namespace = ""
        THEN Result("default", "")
        ELSE Result(config.Contexts[currentContext].Namespace, "")

GetCurrentNamespace ==
    LET config == GetKubeConfig
        currentContext == config.CurrentContext
    IN  IF currentContext = ""
        THEN Result("", "NoCurrentContext")
        ELSE IF currentContext \notin DOMAIN config.Contexts
        THEN Result("", "NotFound")
        ELSE IF config.Contexts[currentContext].Namespace = ""
        THEN Result("default", "")
        ELSE Result(config.Contexts[currentContext].Namespace, "")

\* A GetNamespaceForContext that returns the stored field as it is.
GetNamespaceForContextRaw(contextName) ==
    LET config == GetKubeConfig
    IN  IF contextName \notin DOMAIN config.Contexts
        THEN Result("", "NotFound")
        ELSE Result(config.Contexts[contextName].Namespace, "")

\* GetNamespaceForContext looks the name up as given: it does not resolve
\* the empty name to the current context.
GetNamespaceForContext(contextName) ==
    LET config == GetKubeConfig
    IN  IF contextName \notin DOMAIN config.Contexts
        THEN Result("", "NotFound")
        ELSE IF config.Contexts[contextName].Namespace = ""
        THEN Result("default", "")
        ELSE Result(config.Contexts[contextName].Namespace, "")

\* static.FallBackNamespace.
FallBackNamespace == <<"default", "kube-system", "kube-public", "kube-node-lease">>

\* The three calls GetNamespacesForContext makes to reach the cluster, in
\* the order it makes them.
ClusterCalls == <<"ClientConfig", "NewForConfig", "List">>

\* How the cluster side can behave: the first call that fails (0 for none)
\* and the namespaces the cluster lists when asked.
ClusterBehaviours ==
    [fails : 0..Len(ClusterCalls), items : {<<>>, <<"n">>, <<"n", "default">>}]

\* What GetNamespacesForContext returns, and the calls it made to the
\* cluster side while it ran.
Listing(value, err, calls) == [value |-> value, err |-> err, calls |-> calls]

\* A GetNamespacesForContext that surfaces a failing call as its error.
GetNamespacesForContextStrict(config, contextName, cluster) ==
    LET name == Resolve(config, contextName)
    IN  IF name = ""
        THEN Listing(<<>>, "NoCurrentContext", <<>>)
        ELSE IF name \notin DOMAIN config.Contexts
        THEN Listing(<<>>, "NotFound", <<>>)
        ELSE IF cluster.fails # 0
        THEN Listing(<<>>, ClusterCalls[cluster.fails],
                     SubSeq(ClusterCalls, 1, cluster.fails))
        ELSE Listing(cluster.items, "", ClusterCalls)

\* A GetNamespacesForContext that builds the REST config before it
\* validates the context.
GetNamespacesForContextConnectFirst(config, contextName, cluster) ==
    LET name == Resolve(config, contextName)
    IN  IF cluster.fails = 1
        THEN Listing(FallBackNamespace, "", SubSeq(ClusterCalls, 1, 1))
        ELSE IF name = ""
        THEN Listing(<<>>, "NoCurrentContext", SubSeq(ClusterCalls, 1, 1))
        ELSE IF name \notin DOMAIN config.Contexts
        THEN Listing(<<>>, "NotFound", SubSeq(ClusterCalls, 1, 1))
        ELSE IF cluster.fails # 0
        THEN Listing(FallBackNamespace, "", SubSeq(ClusterCalls, 1, cluster.fails))
        ELSE Listing(cluster.items, "", ClusterCalls)

GetNamespacesForContext(config, contextName, cluster) ==
    LET name == Resolve(config, contextName)
    IN  IF name = ""
        THEN Listing(<<>>, "NoCurrentContext", <<>>)
        ELSE IF name \notin DOMAIN config.Contexts
        THEN Listing(<<>>, "NotFound", <<>>)
        ELSE IF cluster.fails # 0
        THEN Listing(FallBackNamespace, "", SubSeq(ClusterCalls, 1, cluster.fails))
        ELSE Listing(cluster.items, "", ClusterCalls)

\* GetNamespaces: the namespaces of the current context.
GetNamespaces(config, cluster) == GetNamespacesForContext(config, "", cluster)

\* No query has been made.
NoAnswer == [op |-> ""]

\* A query made and what it returned.
Answer(op, contextName, cluster, got) ==
    [op |-> op, name |-> contextName, cluster |-> cluster, got |-> got]

\* No cluster is involved in the query.
NoCluster == [fails |-> 0, items |-> <<>>]

\* A command asks for the namespace of the current context.
CallGetCurrentNamespace ==
    /\ answer.op = ""
    /\ answer' = Answer("GetCurrentNamespace", "", NoCluster, GetCurrentNamespace)
    /\ UNCHANGED <<file, last, released, mem, ui>>

\* A command asks for the namespace of a context.
CallGetNamespaceForContext(contextName) ==
    /\ answer.op = ""
    /\ answer' = Answer("GetNamespaceForContext", contextName, NoCluster,
                        GetNamespaceForContext(contextName))
    /\ UNCHANGED <<file, last, released, mem, ui>>

\* GetNamespacesForContext has returned: the answer, and the document the
\* call had loaded.
Listed(contextName, cluster, config, got) ==
    [op |-> "GetNamespacesForContext", name |-> contextName, cluster |-> cluster,
     got |-> got, config |-> config]

\* GetNamespacesForContext has loaded the document and is on its way to
\* the cluster side, which will behave as cluster says.
InFlight(contextName, cluster, config) ==
    [op |-> "Namespaces().List", name |-> contextName, cluster |-> cluster,
     config |-> config]

\* The call up to its request to the cluster: it loads the file and
\* returns at once unless it comes to ask the cluster for the list
\* (Namespaces().List); then it waits for the answer, and the file is free
\* for others until the answer is there.
Asked(contextName, cluster) ==
    LET config == GetKubeConfig
        got == GetNamespacesForContext(config, contextName, cluster)
    IN  IF Len(got.calls) < Len(ClusterCalls)
        THEN Listed(contextName, cluster, config, got)
        ELSE InFlight(contextName, cluster, config)

\* The cluster side has answered, or failed, and the call returns what it
\* makes of that for the document it had loaded.
Answered ==
    Listed(answer.name, answer.cluster, answer.config,
           GetNamespacesForContext(answer.config, answer.name, answer.cluster))

\* A command asks for the namespaces of a context's cluster, which behaves
\* in one of the ways it can.
CallGetNamespacesForContext(contextName, cluster) ==
    /\ answer.op = ""
    /\ answer' = Asked(contextName, cluster)
    /\ UNCHANGED <<file, last, released, mem, ui>>

\* The call of the command returns.
GetNamespacesForContextReturns ==
    /\ answer.op = "Namespaces().List"
    /\ answer' = Answered
    /\ UNCHANGED <<file, last, released, mem, ui>>

\* The ways the cluster behaves when a write by another invocation falls
\* into the wait for it: it answers, or the request for the list fails.
ReadClusters ==
    {c \in ClusterBehaviours : c.fails \in {0, Len(ClusterCalls)} /\ c.items = <<"n">>}

\* Another terminal runs one operation on the file while the call waits
\* for the cluster.
WritesMeanwhile ==
    /\ answer.op = "Namespaces().List"
    /\ answer.cluster \in ReadClusters
    /\ last.op = "none"
    /\ \/ \E n \in CtxNames : SwitchContext(n)
       \/ \E n \in CtxNames : DeleteContext(n)
       \/ \E n \in CtxNames, ns \in Namespaces : SetNamespaceForContext(n, ns)

(* ----------------- two invocations on the same file -------------------- *)

\* The invocations that may be in flight together (two terminals).
Procs == {1, 2}

\* An invocation that has not started.
Idle ==
    [pc |-> "idle", op |-> "", name |-> "", ns |-> "", config |-> NewConfig,
     err |-> "", order |-> 0, stale |-> FALSE]

Init ==
    /\ \E c \in Configs : file = Write(c)
    /\ last = [op |-> "none", name |-> "", ns |-> "", err |-> "",
               current |-> file.currentContext]
    /\ released = <<>>
    /\ mem = Unused
    /\ ui = Unused
    /\ answer = NoAnswer

Next ==
    \/ \E n \in NameArgs : SwitchContext(n)
    \/ \E n \in NameArgs : DeleteContext(n)
    \/ \E ns \in Namespaces : SetNamespace(ns)
    \/ \E n \in NameArgs, ns \in Namespaces : SetNamespaceForContext(n, ns)

Spec == Init /\ [][Next]_vars

\* Deletions only, one after another from any of the initial documents.
DeleteNext == \E n \in NameArgs : DeleteContext(n)

SpecDelete == Init /\ [][DeleteNext]_vars

\* The queries, each made of any of the initial documents; the file may be
\* written by another invocation while a query waits for the cluster.
QueryNext ==
    \/ CallGetCurrentNamespace
    \/ \E n \in NameArgs : CallGetNamespaceForContext(n)
    \/ \E n \in NameArgs, cluster \in ClusterBehaviours :
          CallGetNamespacesForContext(n, cluster)
    \/ GetNamespacesForContextReturns
    \/ WritesMeanwhile

SpecQuery == Init /\ [][QueryNext]_vars

(* A handler reads the file once, at its start, and writes it once, at its *)
(* end; nothing locks the file in between.  When two invocations run       *)
(* together the steps that matter are those two, so each handler is taken  *)
(* in two steps: the load with the checks that follow it, and the save of  *)
(* the edited document.                                                    *)

\* The documents the two invocations start from: every context is there,
\* each on one of two clusters.
RaceConfigs ==
    { Config(ctxs, {"x", "y"}, {"u"}, cur) :
        ctxs \in [CtxNames -> [Cluster : {"x", "y"}, AuthInfo : {"u"},
                               Namespace : {""}]],
        cur \in NameArgs }

Operations == {"SwitchContext", "DeleteContext", "SetNamespaceForContext"}

\* What the two terminals may ask for: an operation, its context name and,
\* for SetNamespaceForContext, its namespace.
Requests ==
    {r \in [op : Operations, name : NameArgs, ns : Namespaces] :
        r.op # "SetNamespaceForContext" => r.ns = ""}

\* The error of the checks between the load and the edit ("" if they pass).
Refusal(op, config, contextName) ==
    LET name == IF op = "SetNamespaceForContext"
                THEN Resolve(config, contextName) ELSE contextName
    IN  IF op = "SetNamespaceForContext" /\ name = ""
        THEN "NoCurrentContext"
        ELSE IF name \notin DOMAIN config.Contexts
        THEN "NotFound"
        ELSE ""

\* The document a handler writes, from the one it loaded.
Edit(m) ==
    CASE m.op = "SwitchContext" -> SetCurrent(m.config, m.name)
      [] m.op = "DeleteContext" -> Deleted(m.config, m.name)
      [] m.op = "SetNamespaceForContext" ->
             SetNs(m.config, Resolve(m.config, m.name), m.ns)

\* GetKubeConfig and the checks of invocation p.
LoadStep(p, op, contextName, namespace) ==
    LET config == GetKubeConfig
        err == Refusal(op, config, contextName)
    IN  /\ mem[p].pc = "idle"
        /\ mem' = [mem EXCEPT ![p] =
                      [@ EXCEPT !.pc = IF err = "" THEN "loaded" ELSE "done",
                                !.op = op, !.name = contextName, !.ns = namespace,
                                !.config = config, !.err = err]]
        /\ UNCHANGED <<file, last, released, ui, answer>>

\* How many invocations have called clientcmd.WriteToFile so far.
Saves == Cardinality({q \in Procs : mem[q].order > 0})

\* A save that loads the file again and edits what it finds there.
SaveStepMerging(p, outcome) ==
    /\ mem[p].pc = "loaded"
    /\ file' = LET fresh == [mem[p] EXCEPT !.config = GetKubeConfig]
               IN  IF Refusal(fresh.op, fresh.config, fresh.name) = ""
                   THEN WriteToFile(Edit(fresh), outcome)
                   ELSE WriteToFile(fresh.config, outcome)
    /\ mem' = [q \in Procs |->
                 IF q = p
                 THEN [mem[q] EXCEPT !.pc = "done", !.err = SaveError(outcome),
                                     !.order = Saves + 1]
                 ELSE IF mem[q].pc = "loaded" /\ outcome = "ok"
                 THEN [mem[q] EXCEPT !.stale = TRUE]
                 ELSE mem[q]]
    /\ UNCHANGED <<last, released, ui, answer>>

\* A save that writes only the field the invocation changed into the file
\* as it is by then: current-context for a switch, and for the other two
\* operations their edit of the context if it is still there.
SaveStepPatching(p, outcome) ==
    /\ mem[p].pc = "loaded"
    /\ file' = LET fresh == [mem[p] EXCEPT !.config = GetKubeConfig]
               IN  IF fresh.op = "SwitchContext"
                   THEN WriteToFile(SetCurrent(fresh.config, fresh.name), outcome)
                   ELSE IF Refusal(fresh.op, fresh.config, fresh.name) = ""
                   THEN WriteToFile(Edit(fresh), outcome)
                   ELSE WriteToFile(fresh.config, outcome)
    /\ mem' = [q \in Procs |->
                 IF q = p
                 THEN [mem[q] EXCEPT !.pc = "done", !.err = SaveError(outcome),
                                     !.order = Saves + 1]
                 ELSE IF mem[q].pc = "loaded" /\ outcome = "ok"
                 THEN [mem[q] EXCEPT !.stale = TRUE]
                 ELSE mem[q]]
    /\ UNCHANGED <<last, released, ui, answer>>

\* clientcmd.WriteToFile of invocation p: the whole edited document goes to
\* the file.  An invocation that loaded before this save and has not saved
\* yet now holds a stale document.
SaveStep(p, outcome) ==
    /\ mem[p].pc = "loaded"
    /\ file' = WriteToFile(Edit(mem[p]), outcome)
    /\ mem' = [q \in Procs |->
                 IF q = p
                 THEN [mem[q] EXCEPT !.pc = "done", !.err = SaveError(outcome),
                                     !.order = Saves + 1]
                 ELSE IF mem[q].pc = "loaded" /\ outcome = "ok"
                 THEN [mem[q] EXCEPT !.stale = TRUE]
                 ELSE mem[q]]
    /\ UNCHANGED <<last, released, ui, answer>>

RaceInit ==
    /\ \E c \in RaceConfigs : file = Write(c)
    /\ last = [op |-> "none", name |-> "", ns |-> "", err |-> "",
               current |-> file.currentContext]
    /\ released = <<>>
    /\ mem = [p \in Procs |-> Idle]
    /\ ui = Unused
    /\ answer = Unused

RaceNext ==
    \/ \E p \in Procs, r \in Requests : LoadStep(p, r.op, r.name, r.ns)
    \/ \E p \in Procs, w \in SaveOutcomes : SaveStep(p, w)

SpecRace == RaceInit /\ [][RaceNext]_vars

(* ---------------------- the ui sort functions ------------------------- *)

\* Names as the sort sees them: strings as sequences of character codes,
\* the empty string, a string and its extensions, and a string that differs
\* in its first character.
SortNames == {<<>>, <<1>>, <<1, 1>>, <<1, 2>>, <<2>>}

\* The lists of at most MaxLen names, repetitions allowed.
NameLists == UNION {[1..n -> SortNames] : n \in 0..MaxLen}

\* Go's < on strings: byte by byte, a proper prefix first.
RECURSIVE StringLess(_, _)
StringLess(a, b) ==
    IF b = <<>> THEN FALSE
    ELSE IF a = <<>> THEN TRUE
    ELSE IF Head(a) # Head(b) THEN Head(a) < Head(b)
    ELSE StringLess(Tail(a), Tail(b))

\* A sort.Strings that leaves the slice as it is.
SortStringsNone(x) == x

\* One pass of the insertion sort sort.Strings runs on a short slice: x[i]
\* moves down while the element below it is greater.
RECURSIVE Sink(_, _)
Sink(x, j) ==
    IF j > 1 /\ StringLess(x[j], x[j - 1])
    THEN Sink([x EXCEPT ![j] = x[j - 1], ![j - 1] = x[j]], j - 1)
    ELSE x

RECURSIVE InsertionSort(_, _)
InsertionSort(x, i) ==
    IF i > Len(x) THEN x ELSE InsertionSort(Sink(x, i), i + 1)

\* A sort.Strings that stops after moving the last element into place.
SortStringsOnePass(x) == Sink(x, Len(x))

\* sort.Strings: the slice in ascending order.
SortStrings(x) == InsertionSort(x, 2)

\* The index of the first element equal to name (0 if there is none): the
\* range loop of the sort functions.
RECURSIVE IndexFrom(_, _, _)
IndexFrom(x, name, i) ==
    IF i > Len(x) THEN 0
    ELSE IF x[i] = name THEN i
    ELSE IndexFrom(x, name, i + 1)

\* Memory as the sort functions see it: the backing arrays allocated so
\* far.  A slice is a window on one of them: the array, the places before
\* its first element, its length and its capacity.
Slice(array, low, len, cap) == [array |-> array, low |-> low, len |-> len, cap |-> cap]

\* The elements a slice shows.
Elements(memory, s) == [k \in 1..s.len |-> memory[s.array][s.low + k]]

\* The memory after x has been written into the array of s, behind the
\* first `at` elements of s.
Stored(memory, s, at, x) ==
    LET array == memory[s.array]
    IN  [memory EXCEPT ![s.array] =
            [k \in DOMAIN array |->
                IF k - (s.low + at) \in DOMAIN x THEN x[k - (s.low + at)] ELSE array[k]]]

\* A new array holding x, and the slice on all of it.
Allocated(memory, x) ==
    [memory |-> Append(memory, x), slice |-> Slice(Len(memory) + 1, 0, Len(x), Len(x))]

\* s[:j] and s[j:], j counted from 0 as Go does.
SliceTo(s, j) == [s EXCEPT !.len = j]

SliceFrom(s, j) == [s EXCEPT !.low = @ + j, !.len = @ - j, !.cap = @ - j]

\* A `sorted` that is the caller's slice itself.
Alias(memory, s) == [memory |-> memory, slice |-> s]

\* make([]string, len(s)) and copy(sorted, s): a new array of empty
\* strings, then the elements of s written into it.
MakeCopy(memory, s) ==
    LET made == Allocated(memory, [k \in 1..s.len |-> <<>>])
    IN  [memory |-> Stored(made.memory, made.slice, 0, Elements(made.memory, s)),
         slice |-> made.slice]

\* sort.Strings(s): the elements of s are put in order where they are.
SortedInPlace(memory, s) == Stored(memory, s, 0, SortStrings(Elements(memory, s)))

\* append(s, x...): into the array of s when its capacity allows, into a
\* new array otherwise (whose capacity beyond its length no caller here
\* uses).
Appended(memory, s, x) ==
    IF s.len + Len(x) <= s.cap
    THEN [memory |-> Stored(memory, s, s.len, x),
          slice |-> [s EXCEPT !.len = @ + Len(x)]]
    ELSE Allocated(memory, Elements(memory, s) \o x)

\* A removal that takes out every element equal to the i-th.
RemoveEqual(memory, sorted, i) ==
    LET x == Elements(memory, sorted)
        kept == SelectSeq(x, LAMBDA e : e # x[i])
    IN  [memory |-> Stored(memory, sorted, 0, kept), slice |-> SliceTo(sorted, Len(kept))]

\* append(sorted[:i], sorted[i+1:]...) for the i-th element, i counted from
\* 1: the elements above it move down by one in the array of sorted, whose
\* last place keeps what it held.
RemoveAt(memory, sorted, i) ==
    Appended(memory, SliceTo(sorted, i - 1), Elements(memory, SliceFrom(sorted, i)))

\* append([]string{current}, sorted...): a one-element array, which the
\* append outgrows unless sorted is empty.
ToFront(memory, current, sorted) ==
    LET literal == Allocated(memory, <<current>>)
    IN  Appended(literal.memory, literal.slice, Elements(literal.memory, sorted))

\* What a call leaves: the elements of the caller's slice and those of the
\* slice returned.
Returned(caller, result) == [caller |-> caller, result |-> result]

Outcome(memory, caller, result) ==
    Returned(Elements(memory, caller), Elements(memory, result))

\* The caller's slice: the list in an array of its own.
Given(list) == Allocated(<<>>, list)

\* A SortContexts that puts the current context in front whether or not
\* the list holds it.
SortContextsForceFront(contextNames, currentContext, prioritizeCurrent) ==
    IF Len(contextNames) = 0
    THEN Returned(contextNames, contextNames)
    ELSE LET sorted == SortStrings(contextNames)
             i == IndexFrom(sorted, currentContext, 1)
             j == IF i = 0 THEN Len(sorted) ELSE i
         IN  IF prioritizeCurrent /\ currentContext # <<>>
             THEN Returned(contextNames,
                           <<currentContext>> \o SubSeq(sorted, 1, j - 1)
                               \o SubSeq(sorted, j + 1, Len(sorted)))
             ELSE Returned(contextNames, sorted)

\* SortContexts: an empty list is returned as it is; otherwise a copy is
\* made and sorted and, if asked and found, the current context is taken
\* out of the copy and put in front of it.
SortContexts(contextNames, currentContext, prioritizeCurrent) ==
    LET caller == Given(contextNames)
    IN  IF caller.slice.len = 0
        THEN Outcome(caller.memory, caller.slice, caller.slice)
        ELSE LET copy == MakeCopy(caller.memory, caller.slice)
                 sorted == copy.slice
                 memory == SortedInPlace(copy.memory, sorted)
                 i == IndexFrom(Elements(memory, sorted), currentContext, 1)
             IN  IF prioritizeCurrent /\ currentContext # <<>> /\ i # 0
                 THEN LET removed == RemoveAt(memory, sorted, i)
                          front == ToFront(removed.memory, currentContext, removed.slice)
                      IN  Outcome(front.memory, caller.slice, front.slice)
                 ELSE Outcome(memory, caller.slice, sorted)

\* A SortNamespaces that puts the current namespace in front without
\* taking it out of its place.
SortNamespacesNoRemove(namespaces, currentNamespace, prioritizeCurrent) ==
    IF Len(namespaces) = 0
    THEN Returned(namespaces, namespaces)
    ELSE LET sorted == SortStrings(namespaces)
             i == IndexFrom(sorted, currentNamespace, 1)
         IN  IF prioritizeCurrent /\ currentNamespace # <<>> /\ i # 0
             THEN Returned(namespaces,
                           <<currentNamespace>> \o SubSeq(sorted, 1, Len(sorted) - 1))
             ELSE Returned(namespaces, sorted)

\* SortNamespaces: the same code on namespace names.
SortNamespaces(namespaces, currentNamespace, prioritizeCurrent) ==
    LET caller == Given(namespaces)
    IN  IF caller.slice.len = 0
        THEN Outcome(caller.memory, caller.slice, caller.slice)
        ELSE LET copy == MakeCopy(caller.memory, caller.slice)
                 sorted == copy.slice
                 memory == SortedInPlace(copy.memory, sorted)
                 i == IndexFrom(Elements(memory, sorted), currentNamespace, 1)
             IN  IF prioritizeCurrent /\ currentNamespace # <<>> /\ i # 0
                 THEN LET removed == RemoveAt(memory, sorted, i)
                          front == ToFront(removed.memory, currentNamespace, removed.slice)
                      IN  Outcome(front.memory, caller.slice, front.slice)
                 ELSE Outcome(memory, caller.slice, sorted)

\* A caller holds a slice and calls SortContexts with it; caller is what
\* its slice shows in memory once the call has returned.
CallSortContexts ==
    /\ ui.fn = ""
    /\ LET r == SortContexts(ui.caller, ui.current, ui.prioritize)
       IN  ui' = [ui EXCEPT !.fn = "SortContexts", !.caller = r.caller,
                            !.result = r.result]
    /\ UNCHANGED <<file, last, released, mem, answer>>

\* A caller holds a slice and calls SortNamespaces with it; caller is what
\* its slice shows in memory once the call has returned.
CallSortNamespaces ==
    /\ ui.fn = ""
    /\ LET r == SortNamespaces(ui.caller, ui.current, ui.prioritize)
       IN  ui' = [ui EXCEPT !.fn = "SortNamespaces", !.caller = r.caller,
                            !.result = r.result]
    /\ UNCHANGED <<file, last, released, mem, answer>>

\* Before the call: any list, any current name, either flag.  names keeps
\* the list as it was handed over.
SortInit ==
    /\ file = EmptyFile
    /\ last = [op |-> "none", name |-> "", ns |-> "", err |-> "", current |-> ""]
    /\ released = <<>>
    /\ mem = Unused
    /\ answer = Unused
    /\ \E names \in NameLists, current \in SortNames, prioritize \in BOOLEAN :
          ui = [fn |-> "", names |-> names, current |-> current,
                prioritize |-> prioritize, caller |-> names, result |-> <<>>]

SortNext == CallSortContexts \/ CallSortNamespaces

SpecSort == SortInit /\ [][SortNext]_vars

(* ----------------------------- the commands --------------------------- *)

(* A command is one process.  It makes its calls into the kubeconfig       *)
(* package one after the other, each of which loads the file afresh, and   *)
(* ui.PrintError with exitOnError ends the process on the spot.  Between   *)
(* its calls it waits: for the user at a selector or at the confirmation   *)
(* prompt, and for the cluster while GetNamespaces lists the namespaces.   *)
(* Nothing locks the file while it waits, so the command is taken in       *)
(* steps, one from each wait to the next, and another terminal may run an  *)
(* operation on the file while the command waits.                          *)

\* The documents a command is run on: any subset of the contexts, each with
\* or without a namespace; current-context may be unset or name a context
\* that is not there.
CmdConfigs == ConfigsOver({"x"}, {{"x"}}, {"u"}, {{"u"}})

\* What `-n` may be followed by on the command line: a namespace name, the
\* default namespace, or a word that is also the name of a context.
NsArgs == {"n", "default"} \cup CtxNames

\* The flag of the root and the switch command, as it stands in os.Args.
SetNamespaceFlag == "-n"

\* The command lines of the root and the switch command, after the command
\* name: nothing, a context, the flag, and the flag followed by a word.
Lines ==
    {<<>>, <<SetNamespaceFlag>>}
    \cup {<<c>> : c \in CtxNames}
    \cup {<<c, SetNamespaceFlag>> : c \in CtxNames}
    \cup {<<SetNamespaceFlag, c>> : c \in CtxNames}
    \cup {<<c, SetNamespaceFlag, word>> : c \in CtxNames, word \in NsArgs}

\* The bytes of the names that are sorted for a selector: Go compares
\* strings byte by byte.
Bytes ==
    ("" :> <<>>)
    @@ ("a" :> <<97>>) @@ ("b" :> <<98>>) @@ ("c" :> <<99>>)
    @@ ("d" :> <<100>>) @@ ("e" :> <<101>>) @@ ("n" :> <<110>>)
    @@ ("default" :> <<100, 101, 102, 97, 117, 108, 116>>)
    @@ ("kube-system" :> <<107, 117, 98, 101, 45, 115, 121, 115, 116, 101, 109>>)
    @@ ("kube-public" :> <<107, 117, 98, 101, 45, 112, 117, 98, 108, 105, 99>>)
    @@ ("kube-node-lease" :>
          <<107, 117, 98, 101, 45, 110, 111, 100, 101, 45, 108, 101, 97, 115, 101>>)

Text(bytes) == CHOOSE s \in DOMAIN Bytes : Bytes[s] = bytes

Encoded(names) == [i \in DOMAIN names |-> Bytes[names[i]]]

Decoded(list) == [i \in DOMAIN list |-> Text(list[i])]

\* `for name := range contexts`: the keys in any of the orders the map may
\* give them in; the order of a range over a map is not fixed and differs
\* from run to run.
Keys(S) ==
    {x \in [1..Cardinality(S) -> S] : \A i, j \in DOMAIN x : x[i] = x[j] => i = j}

\* The list the context selector shows: ui.SortContexts over the names as
\* the map gave them, with the current context first.
ShownContexts(contextNames, currentContext) ==
    Decoded(SortContexts(Encoded(contextNames), Bytes[currentContext], TRUE).result)

\* The list the namespace selector shows: ui.SortNamespaces with the
\* current namespace first.
ShownNamespaces(namespaces, currentNamespace) ==
    Decoded(SortNamespaces(Encoded(namespaces), Bytes[currentNamespace], TRUE).result)

\* The item the user picks at a selector: the one of the list shown that
\* the cursor has been moved to.
Picked(items, pick) == items[pick]

\* Where the user can move the cursor to in the longest list shown.
Picks == 1..Len(FallBackNamespace)

\* GetCurrentNamespace as a call of the command sees it.
CurrentNamespaceOf(config) ==
    LET currentContext == config.CurrentContext
    IN  IF currentContext = ""
        THEN Result("", "NoCurrentContext")
        ELSE IF currentContext \notin DOMAIN config.Contexts
        THEN Result("", "NotFound")
        ELSE IF config.Contexts[currentContext].Namespace = ""
        THEN Result("default", "")
        ELSE Result(config.Contexts[currentContext].Namespace, "")

\* GetNamespaces as a call of the command sees it.
NamespacesOf(config, cluster) ==
    LET name == Resolve(config, "")
    IN  IF name = ""
        THEN Result(<<>>, "NoCurrentContext")
        ELSE IF name \notin DOMAIN config.Contexts
        THEN Result(<<>>, "NotFound")
        ELSE IF cluster.fails # 0
        THEN Result(FallBackNamespace, "")
        ELSE Result(cluster.items, "")

\* No command has been started.
NoCommand == [pc |-> "idle"]

\* nonFlagArgs, the set-namespace flag and namespaceArg of rootCmd.Run and
\* switchCmd.Run: the word after the flag is the namespace unless it is the
\* first positional argument.
NonFlagArgs(line) == SelectSeq(line, LAMBDA t : t # SetNamespaceFlag)

SetNS(line) == \E i \in DOMAIN line : line[i] = SetNamespaceFlag

NamespaceArg(line) ==
    LET after == {i \in 2..Len(line) :
                    /\ line[i - 1] = SetNamespaceFlag
                    /\ line[i] # SetNamespaceFlag
                    /\ Len(NonFlagArgs(line)) = 0 \/ line[i] # NonFlagArgs(line)[1]}
    IN  IF after = {} THEN "" ELSE line[CHOOSE i \in after : \A j \in after : i <= j]

\* What the handler goes on to once runSwitch has returned: with a
\* namespace argument and a context, GetNamespaces and then nsCmd.Run with
\* the argument; with the flag alone, nsCmd.Run without arguments; nothing
\* without the flag.
Plan(line) ==
    IF NamespaceArg(line) # ""
    THEN IF Len(NonFlagArgs(line)) > 0
         THEN [args |-> <<NonFlagArgs(line)[1]>>, then |-> "GetNamespaces",
               nsargs |-> <<NamespaceArg(line)>>]
         ELSE [args |-> <<>>, then |-> "nsCmd.Run", nsargs |-> <<NamespaceArg(line)>>]
    ELSE IF SetNS(line)
    THEN [args |-> NonFlagArgs(line), then |-> "nsCmd.Run", nsargs |-> <<>>]
    ELSE [args |-> NonFlagArgs(line), then |-> "", nsargs |-> <<>>]

\* A command at its start: the command, its line, what is left to do, the
\* document it starts on, and nothing read, asked or called yet.
Begin(cmd, line, then, nsargs, show) ==
    [m |-> [pc |-> "run", cmd |-> cmd, line |-> line, then |-> then,
            nsargs |-> nsargs, show |-> show, start |-> GetKubeConfig,
            items |-> <<>>, currentContext |-> "", currentNamespace |-> "",
            name |-> "", cancelled |-> FALSE, missing |-> FALSE, prompt |-> "",
            calls |-> <<>>, exit |-> FALSE],
     f |-> file]

\* The handler returns, the process exits, the command waits.
Return(s) == [s EXCEPT !.m.pc = "done"]

Exit(s) == [s EXCEPT !.m.pc = "done", !.m.exit = TRUE]

Wait(s, for) == [s EXCEPT !.m.pc = for]

\* clientcmd.WriteToFile onto the file as it is at the call.
Save(f, config, outcome) ==
    CASE outcome = "ok" -> Write(config)
      [] outcome = "open" -> f
      [] outcome = "write" -> EmptyFile

\* A mutating call of the command; every caller below passes its error to
\* ui.PrintError with exitOnError, so an error ends the process.
Made(s, fn, found, config, outcome) ==
    LET t == [s EXCEPT !.m.calls = Append(@, fn)]
    IN  IF ~found
        THEN Exit(t)
        ELSE IF outcome = "ok"
        THEN [t EXCEPT !.f = Write(config)]
        ELSE Exit([t EXCEPT !.f = Save(s.f, config, outcome)])

CallSwitchContext(s, contextName, outcome) ==
    LET config == LoadFromFile(s.f)
        found == contextName \in DOMAIN config.Contexts
    IN  Made(s, "SwitchContext", found,
             IF found THEN SetCurrent(config, contextName) ELSE config, outcome)

\* A SetNamespace that works on the context that was current when the
\* command began.
CallSetNamespaceOnFormer(s, namespace, outcome) ==
    LET config == LoadFromFile(s.f)
        name == s.m.start.CurrentContext
        found == name # "" /\ name \in DOMAIN config.Contexts
    IN  Made(s, "SetNamespace", found,
             IF found THEN SetNs(config, name, namespace) ELSE config, outcome)

CallSetNamespace(s, namespace, outcome) ==
    LET config == LoadFromFile(s.f)
        name == Resolve(config, "")
        found == name # "" /\ name \in DOMAIN config.Contexts
    IN  Made(s, "SetNamespace", found,
             IF found THEN SetNs(config, name, namespace) ELSE config, outcome)

CallDeleteContext(s, contextName, outcome) ==
    LET config == LoadFromFile(s.f)
        found == contextName \in DOMAIN config.Contexts
    IN  Made(s, "DeleteContext", found,
             IF found THEN Deleted(config, contextName) ELSE config, outcome)

\* runNamespace up to its call of GetNamespaces: it reads the current
\* namespace, returns if only asked to show it or if the argument is the
\* current namespace already, and otherwise asks the cluster.
runNamespace(s) ==
    LET config == LoadFromFile(s.f)
        currentNamespace == CurrentNamespaceOf(config)
        t == [s EXCEPT !.m.currentNamespace = currentNamespace.value]
    IN  IF currentNamespace.err # ""
        THEN Exit(s)
        ELSE IF Len(s.m.nsargs) = 0 /\ s.m.show
        THEN Return(t)
        ELSE IF Len(s.m.nsargs) > 0 /\ s.m.nsargs[1] = currentNamespace.value
        THEN Return(t)
        ELSE IF NamespacesOf(config, NoCluster).err # ""
        THEN Exit(t)
        ELSE Wait(t, "runNamespace: GetNamespaces")

\* The handler after runSwitch has returned.
AfterSwitch(s) ==
    IF s.m.exit
    THEN s
    ELSE IF s.m.then = ""
    THEN Return(s)
    ELSE IF s.m.then = "nsCmd.Run"
    THEN runNamespace(s)
    ELSE IF NamespacesOf(LoadFromFile(s.f), NoCluster).err # ""
    THEN Exit(s)
    ELSE Wait(s, "GetNamespaces")

\* runSwitch up to its selector, or to its end when a context is named:
\* exit if the name is unknown, nothing to do if it is the current one,
\* SwitchContext otherwise.
runSwitch(s, args, contextNames, outcome) ==
    LET config == LoadFromFile(s.f)
        t == [s EXCEPT !.m.currentContext = config.CurrentContext]
    IN  IF Len(args) = 0
        THEN Wait([t EXCEPT !.m.items =
                      ShownContexts(contextNames, config.CurrentContext)],
                  "runSwitch: selector")
        ELSE IF args[1] \notin DOMAIN config.Contexts
        THEN Exit([t EXCEPT !.m.missing = TRUE])
        ELSE IF args[1] = config.CurrentContext
        THEN AfterSwitch(t)
        ELSE AfterSwitch(CallSwitchContext(t, args[1], outcome))

\* A step of the command.
Step(s) ==
    /\ mem' = s.m
    /\ file' = s.f
    /\ UNCHANGED <<last, released, ui, answer>>

\* The handler of the root and of the switch command up to its first
\* wait: runSwitch on the arguments the command line leaves for it, and
\* what is to follow it.
Run(cmd, line, contextNames, outcome) ==
    runSwitch(Begin(cmd, line, Plan(line).then, Plan(line).nsargs, FALSE),
              Plan(line).args, contextNames, outcome)

\* `kontext ...`
rootCmdRun(line) ==
    /\ mem.pc = "idle"
    /\ \E contextNames \in Keys(DOMAIN GetKubeConfig.Contexts),
          outcome \in SaveOutcomes :
          Step(Run("kontext", line, contextNames, outcome))

\* `kontext switch ...`
switchCmdRun(line) ==
    /\ mem.pc = "idle"
    /\ \E contextNames \in Keys(DOMAIN GetKubeConfig.Contexts),
          outcome \in SaveOutcomes :
          Step(Run("kontext switch", line, contextNames, outcome))

\* `kontext namespace [name]`, with or without --show.
nsCmdRun(args, show) ==
    /\ mem.pc = "idle"
    /\ Step(runNamespace(Begin("kontext namespace", args, "", args, show)))

\* The selector of runSwitch returns: left by the user, the current
\* context again, or another one to switch to.  Over an empty list the
\* user can leave it, or the process ends at the key pressed.
SwitchSelected(cancelled, pick) ==
    /\ mem.pc = "runSwitch: selector"
    /\ cancelled \/ pick \in DOMAIN mem.items \/ Len(mem.items) = 0
    /\ \E outcome \in SaveOutcomes :
          LET s == [m |-> mem, f |-> file]
          IN  IF cancelled
              THEN Step(AfterSwitch([s EXCEPT !.m.cancelled = TRUE]))
              ELSE IF Len(mem.items) = 0
              THEN Step(Exit(s))
              ELSE LET t == [s EXCEPT !.m.name = Picked(mem.items, pick)]
                   IN  IF t.m.name = mem.currentContext
                       THEN Step(AfterSwitch(t))
                       ELSE Step(AfterSwitch(CallSwitchContext(t, t.m.name, outcome)))

\* GetNamespaces of the handler returns: its list decides about a warning
\* only; nsCmd.Run follows.
NamespacesChecked ==
    /\ mem.pc = "GetNamespaces"
    /\ Step(runNamespace([m |-> mem, f |-> file]))

\* GetNamespaces of runNamespace returns.  With a namespace argument the
\* list decides about a warning only and SetNamespace follows; without one
\* the sorted list goes to the selector, unless it is empty.
NamespacesListed(cluster) ==
    /\ mem.pc = "runNamespace: GetNamespaces"
    /\ \E outcome \in SaveOutcomes :
          LET s == [m |-> mem, f |-> file]
              namespaces == IF cluster.fails # 0
                            THEN FallBackNamespace ELSE cluster.items
          IN  IF Len(mem.nsargs) > 0
              THEN Step(Return(CallSetNamespace(s, mem.nsargs[1], outcome)))
              ELSE IF Len(namespaces) = 0
              THEN Step(Return(s))
              ELSE Step(Wait([s EXCEPT !.m.items =
                                 ShownNamespaces(namespaces, mem.currentNamespace)],
                             "runNamespace: selector"))

\* The selector of runNamespace returns.
NamespaceSelected(cancelled, pick) ==
    /\ mem.pc = "runNamespace: selector"
    /\ cancelled \/ pick \in DOMAIN mem.items
    /\ \E outcome \in SaveOutcomes :
          LET s == [m |-> mem, f |-> file]
          IN  IF cancelled
              THEN Step(Return([s EXCEPT !.m.cancelled = TRUE]))
              ELSE LET t == [s EXCEPT !.m.name = Picked(mem.items, pick)]
                   IN  IF t.m.name = mem.currentNamespace
                       THEN Step(Return(t))
                       ELSE Step(Return(CallSetNamespace(t, t.m.name, outcome)))

\* How the confirmation prompt can end: the user confirms, the user
\* declines (promptui.ErrAbort), or the prompt fails otherwise (interrupt,
\* end of input).
PromptOutcomes == {"yes", "ErrAbort", "ErrInterrupt"}

\* A ConfirmAction that takes a declined prompt for a confirmation.
ConfirmActionLenient(prompt) ==
    IF prompt = "ErrInterrupt"
    THEN Result(FALSE, "ErrInterrupt")
    ELSE Result(TRUE, "")

ConfirmAction(prompt) ==
    CASE prompt = "ErrAbort" -> Result(FALSE, "")
      [] prompt = "ErrInterrupt" -> Result(FALSE, prompt)
      [] prompt = "yes" -> Result(TRUE, "")

\* deleteCmd.Run up to its first prompt: nothing to do without contexts;
\* without a name the selector over the contexts; with a name the
\* confirmation prompt, or exit if there is no such context.
deleteCmdRun(args) ==
    /\ mem.pc = "idle"
    /\ LET s == Begin("kontext delete", args, "", <<>>, FALSE)
           config == GetKubeConfig
           t == [s EXCEPT !.m.currentContext = config.CurrentContext]
       IN  IF DOMAIN config.Contexts = {}
           THEN Step(Return(t))
           ELSE IF Len(args) = 0
           THEN \E contextNames \in Keys(DOMAIN config.Contexts) :
                   Step(Wait([t EXCEPT !.m.items =
                                 ShownContexts(contextNames, config.CurrentContext)],
                             "deleteCmd.Run: selector"))
           ELSE IF args[1] \notin DOMAIN config.Contexts
           THEN Step(Exit([t EXCEPT !.m.missing = TRUE]))
           ELSE Step(Wait([t EXCEPT !.m.name = args[1]], "ConfirmAction"))

\* The selector of deleteCmd.Run returns.
DeleteSelected(cancelled, pick) ==
    /\ mem.pc = "deleteCmd.Run: selector"
    /\ cancelled \/ pick \in DOMAIN mem.items
    /\ LET s == [m |-> mem, f |-> file]
       IN  IF cancelled
           THEN Step(Return([s EXCEPT !.m.cancelled = TRUE]))
           ELSE Step(Wait([s EXCEPT !.m.name = Picked(mem.items, pick)],
                          "ConfirmAction"))

\* ConfirmAction returns: exit on an error, return when declined,
\* DeleteContext when confirmed.
Confirmed(prompt) ==
    /\ mem.pc = "ConfirmAction"
    /\ \E outcome \in SaveOutcomes :
          LET s == [m |-> [mem EXCEPT !.prompt = prompt], f |-> file]
              confirmed == ConfirmAction(prompt)
          IN  IF confirmed.err # ""
              THEN Step(Exit(s))
              ELSE IF ~confirmed.value
              THEN Step(Return(s))
              ELSE Step(Return(CallDeleteContext(s, mem.name, outcome)))

\* Another terminal runs one operation on the file while the command
\* waits.
Interferes ==
    /\ mem.pc \notin {"idle", "done"}
    /\ last.op = "none"
    /\ \/ \E n \in CtxNames : SwitchContext(n)
       \/ \E n \in CtxNames : DeleteContext(n)
       \/ \E n \in CtxNames, ns \in Namespaces : SetNamespaceForContext(n, ns)

CmdInit ==
    /\ \E c \in CmdConfigs : file = Write(c)
    /\ last = [op |-> "none", name |-> "", ns |-> "", err |-> "",
               current |-> file.currentContext]
    /\ released = <<>>
    /\ mem = NoCommand
    /\ ui = Unused
    /\ answer = Unused

CmdNext ==
    \/ \E line \in Lines : rootCmdRun(line)
    \/ \E line \in Lines : switchCmdRun(line)
    \/ \E args \in {<<>>} \cup {<<ns>> : ns \in NsArgs}, show \in BOOLEAN :
          nsCmdRun(args, show)
    \/ \E args \in {<<>>} \cup {<<n>> : n \in CtxNames} : deleteCmdRun(args)
    \/ \E cancelled \in BOOLEAN, pick \in Picks : SwitchSelected(cancelled, pick)
    \/ \E cancelled \in BOOLEAN, pick \in Picks : DeleteSelected(cancelled, pick)
    \/ NamespacesChecked
    \/ \E cluster \in ClusterBehaviours : NamespacesListed(cluster)
    \/ \E cancelled \in BOOLEAN, pick \in Picks : NamespaceSelected(cancelled, pick)
    \/ \E prompt \in PromptOutcomes : Confirmed(prompt)
    \/ Interferes

SpecCmd == CmdInit /\ [][CmdNext]_vars

(* ------------------------- the context pickers ------------------------ *)

\* The keys of a map are different from one another.
NoDuplicates(x) == \A i, j \in DOMAIN x : x[i] = x[j] => i = j

\* `for name := range contexts`: the names of the contexts in the order the
\* map happens to give them.
KeyOrders == {x \in NameLists : NoDuplicates(x)}

\* CreateContextSelector: the list as it is, the cursor on the first item
\* equal to the current context, or on the first item if there is none.
CreateContextSelector(contexts, currentContext) ==
    LET i == IndexFrom(contexts, currentContext, 1)
    IN  [Items |-> contexts, CursorPos |-> IF i = 0 THEN 0 ELSE i - 1]

\* A picker that sorts without moving the current context to the front.
ContextPickerAlphabetical(contextNames, currentContext) ==
    CreateContextSelector(SortContexts(contextNames, currentContext, FALSE).result,
                          currentContext)

\* What runSwitch and deleteCmd.Run do when no context is named: sort with
\* the current context first and build the selector from the result.
ContextPicker(contextNames, currentContext) ==
    CreateContextSelector(SortContexts(contextNames, currentContext, TRUE).result,
                          currentContext)

Shows(fn, shown, selector) ==
    /\ ui.fn = ""
    /\ ui' = [fn |-> fn, names |-> ui.names, current |-> ui.current,
              shown |-> shown, selector |-> selector]
    /\ UNCHANGED <<file, last, released, mem, answer>>

\* `kontext switch` (and `kontext`) without a context name.
SwitchPicker == Shows("runSwitch", TRUE, ContextPicker(ui.names, ui.current))

\* `kontext delete` without a context name: no selector when the document
\* has no contexts.
DeletePicker ==
    IF Len(ui.names) = 0
    THEN Shows("deleteCmd.Run", FALSE, CreateContextSelector(<<>>, <<>>))
    ELSE Shows("deleteCmd.Run", TRUE, ContextPicker(ui.names, ui.current))

PickInit ==
    /\ file = EmptyFile
    /\ last = [op |-> "none", name |-> "", ns |-> "", err |-> "", current |-> ""]
    /\ released = <<>>
    /\ mem = Unused
    /\ answer = Unused
    /\ \E names \in KeyOrders, current \in SortNames :
          ui = [fn |-> "", names |-> names, current |-> current]

PickNext == SwitchPicker \/ DeletePicker

SpecPick == PickInit /\ [][PickNext]_vars

(* ------------------------------ claims -------------------------------- *)

\* The document a later invocation reads.
Persisted == LoadFromFile(file)

\* GetCurrentContext: the current-context field, verbatim.
GetCurrentContext == GetKubeConfig.CurrentContext

\* The step is an invocation of op (its record is the next value of last).
Ran(op) == last'.op = op
RanOk(op) == last'.op = op /\ last'.err = ""

\* Does some context of the document name the cluster / the user?
NamesCluster(config, name) ==
    \E n \in DOMAIN config.Contexts : config.Contexts[n].Cluster = name

NamesAuthInfo(config, name) ==
    \E n \in DOMAIN config.Contexts : config.Contexts[n].AuthInfo = name

C2_CurrentStaysResolved ==
    [][file' # file /\ CurrentResolves(LoadFromFile(file))
           => CurrentResolves(LoadFromFile(file'))]_vars

\* The current context has been deleted, another context remains, and
\* current-context is empty.
C2_Witness ==
    /\ last.op = "DeleteContext" /\ last.err = ""
    /\ last.current = last.name
    /\ DOMAIN Persisted.Contexts # {}
    /\ Persisted.CurrentContext = ""

\* What a successful DeleteContext(n) does to the entry X that n's cluster
\* field names, as the claim C3 has it: kept if a surviving context names
\* X, removed if none does.
ClusterKeptIffNamed(before, after, X) ==
    X \in before.Clusters => (X \in after.Clusters <=> NamesCluster(after, X))

AuthInfoKeptIffNamed(before, after, X) ==
    X \in before.AuthInfos => (X \in after.AuthInfos <=> NamesAuthInfo(after, X))

\* C3 as stated: for every document and every existing context n, a
\* successful DeleteContext(n) keeps the cluster entry (the user entry) n
\* names if another surviving context names it and removes it otherwise.
C3_AsStated ==
    [][RanOk("DeleteContext") =>
        LET before == LoadFromFile(file)
            after == LoadFromFile(file')
            ctx == before.Contexts[last'.name]
        IN  /\ ClusterKeptIffNamed(before, after, ctx.Cluster)
            /\ AuthInfoKeptIffNamed(before, after, ctx.AuthInfo)]_vars

\* C3, amended: the same for a non-empty cluster (user) name; an entry
\* whose name is the empty string is never removed.
C3_KeptIffStillNamed ==
    [][RanOk("DeleteContext") =>
        LET before == LoadFromFile(file)
            after == LoadFromFile(file')
            ctx == before.Contexts[last'.name]
        IN  /\ ctx.Cluster # "" => ClusterKeptIffNamed(before, after, ctx.Cluster)
            /\ ctx.AuthInfo # "" => AuthInfoKeptIffNamed(before, after, ctx.AuthInfo)
            /\ "" \in before.Clusters => "" \in after.Clusters
            /\ "" \in before.AuthInfos => "" \in after.AuthInfos]_vars

\* A deletion has succeeded that released cluster x for the first time and
\* x is kept because a surviving context names it, while user u, which no
\* surviving context names, is gone.
C3_Witness ==
    /\ last.op = "DeleteContext" /\ last.err = ""
    /\ "x" \in DOMAIN released /\ released["x"] = 1
    /\ "x" \in Persisted.Clusters /\ NamesCluster(Persisted, "x")
    /\ "u" \notin Persisted.AuthInfos /\ NamesAuthInfo(Persisted, "v")

\* C4: a successful DeleteContext(n) sets current-context to empty when it
\* was n and leaves it as it was when it was another name.
C4_CurrentAfterDelete ==
    [][RanOk("DeleteContext") =>
        LET before == LoadFromFile(file)
            after == LoadFromFile(file')
        IN  after.CurrentContext =
                IF before.CurrentContext = last'.name THEN "" ELSE before.CurrentContext]_vars

\* A context other than the current one has been deleted and the current
\* context is still the current one.
C4_Witness ==
    /\ last.op = "DeleteContext" /\ last.err = ""
    /\ last.current # "" /\ last.current # last.name
    /\ Persisted.CurrentContext = last.current
    /\ last.current \in DOMAIN Persisted.Contexts

\* C5: DeleteContext(n) with n not a context of the document returns the
\* not-found error and leaves the file as it was.
C5_DeleteMissing ==
    [][(Ran("DeleteContext") /\ last'.name \notin DOMAIN LoadFromFile(file).Contexts)
        => (last'.err = "NotFound" /\ file' = file)]_vars

\* A deletion of a missing name has failed on a document that holds
\* contexts, clusters and users.
C5_Witness ==
    /\ last.op = "DeleteContext" /\ last.err = "NotFound"
    /\ last.name # ""
    /\ DOMAIN Persisted.Contexts # {}
    /\ Persisted.Clusters # {} /\ Persisted.AuthInfos # {}

\* C6 as stated: once contexts naming cluster X are being deleted (X had
\* its entry when the first of them went), X has its entry exactly as long
\* as a remaining context names it: it is kept by every deletion but the
\* last and removed by the last.
C6_AsStated ==
    \A X \in DOMAIN released :
        X \in Persisted.Clusters <=> NamesCluster(Persisted, X)

\* C6, amended: the same for every non-empty cluster name X.
C6_RemovedWithLastReference ==
    \A X \in DOMAIN released :
        X # "" => (X \in Persisted.Clusters <=> NamesCluster(Persisted, X))

\* Two contexts naming x have been deleted one after the other; the second
\* deletion was the last reference and x has no entry any more.
C6_Witness ==
    /\ last.op = "DeleteContext" /\ last.err = ""
    /\ "x" \in DOMAIN released /\ released["x"] = 2
    /\ "x" \notin Persisted.Clusters
    /\ Persisted.AuthInfos # {}

\* C7 as stated: after a successful DeleteContext the document holds no
\* cluster or user entry that no remaining context names.
C7_AsStated ==
    [][RanOk("DeleteContext") =>
        LET after == LoadFromFile(file')
        IN  /\ \A X \in after.Clusters : NamesCluster(after, X)
            /\ \A U \in after.AuthInfos : NamesAuthInfo(after, U)]_vars

\* C7, amended: a successful DeleteContext leaves every entry that no
\* context named before the call in place, and every entry that no
\* remaining context names after the call was unnamed before it or has
\* the empty name: only the entries the deleted context named are pruned.
C7_OnlyOwnEntriesPruned ==
    [][RanOk("DeleteContext") =>
        LET before == LoadFromFile(file)
            after == LoadFromFile(file')
        IN  /\ \A X \in before.Clusters : ~NamesCluster(before, X) => X \in after.Clusters
            /\ \A U \in before.AuthInfos : ~NamesAuthInfo(before, U) => U \in after.AuthInfos
            /\ \A X \in after.Clusters :
                  ~NamesCluster(after, X) => (~NamesCluster(before, X) \/ X = "")
            /\ \A U \in after.AuthInfos :
                  ~NamesAuthInfo(after, U) => (~NamesAuthInfo(before, U) \/ U = "")]_vars

\* A deletion has succeeded that took the last reference to x, and the
\* entry y, which no deleted and no remaining context named, is still there.
C7_Witness ==
    /\ last.op = "DeleteContext" /\ last.err = ""
    /\ DOMAIN released = {"x"} /\ "x" \notin Persisted.Clusters
    /\ "y" \in Persisted.Clusters /\ ~NamesCluster(Persisted, "y")
    /\ DOMAIN Persisted.Contexts # {}

\* C8 as stated: when the save of a mutating operation fails, or the
\* process stops during the write, the file holds the document it held
\* before the operation began.
C8_AsStated ==
    [][last'.err = "SaveError" => file' = file]_vars

\* C9: SwitchContext(n) with n a context of the document does not fail as
\* not found; once its save has succeeded GetCurrentContext returns n and
\* the contexts, clusters and users of the document are those loaded.
C9_SwitchSetsOnlyCurrent ==
    [][(Ran("SwitchContext") /\ last'.name \in DOMAIN LoadFromFile(file).Contexts) =>
        LET before == LoadFromFile(file)
            after == LoadFromFile(file')
        IN  /\ last'.err \in {"", "SaveError"}
            /\ last'.err = "" =>
                  /\ GetCurrentContext' = last'.name
                  /\ after.Contexts = before.Contexts
                  /\ after.Clusters = before.Clusters
                  /\ after.AuthInfos = before.AuthInfos]_vars

\* A switch to a context other than the current one has succeeded on a
\* document whose target context carries a namespace.
C9_Witness ==
    /\ last.op = "SwitchContext" /\ last.err = ""
    /\ last.current # last.name
    /\ GetCurrentContext = last.name
    /\ Persisted.Contexts[last.name].Namespace = "n"
    /\ Persisted.Clusters # {}

\* C10: SwitchContext(n) when the context n is already the current one does
\* not fail as not found and, once saved, leaves the file as it was; and a
\* successful SwitchContext(n) right after a successful SwitchContext(n)
\* leaves the file as the first one left it.
C10_SwitchIdempotent ==
    [][(Ran("SwitchContext") /\ last'.name \in DOMAIN LoadFromFile(file).Contexts) =>
        /\ LoadFromFile(file).CurrentContext = last'.name =>
              /\ last'.err \in {"", "SaveError"}
              /\ last'.err = "" => file' = file
        /\ (last.op = "SwitchContext" /\ last.err = "" /\ last.name = last'.name
              /\ last'.err = "") => file' = file]_vars

\* A switch to the context that was already current has succeeded.
C10_Witness ==
    /\ last.op = "SwitchContext" /\ last.err = ""
    /\ last.current = last.name
    /\ GetCurrentContext = last.name
    /\ Cardinality(DOMAIN Persisted.Contexts) = 2

(* ------------------- claims: namespaces and queries ------------------- *)

\* The name an invocation worked on: the one given, or the context that
\* was current when it started if none was given.
Target(inv) == IF inv.name = "" THEN inv.current ELSE inv.name

\* C11: when SwitchContext or SetNamespaceForContext returns an error
\* because the (resolved) name is not a context of the document, or because
\* no current context is set, the file is as it was before the call;
\* SetNamespaceForContext("", ns) with a current-context that names no
\* context is such a call.
C11_RejectedLeavesFile ==
    [][/\ last'.op \in {"SwitchContext", "SetNamespaceForContext"}
       /\ \/ Target(last') = ""
          \/ Target(last') \notin DOMAIN Persisted.Contexts
       => /\ last'.err \in {"NotFound", "NoCurrentContext"}
          /\ file' = file]_vars

\* SetNamespaceForContext("", ns) has been refused because current-context
\* names a context the document (which has others) does not hold.
C11_Witness ==
    /\ last.op = "SetNamespaceForContext" /\ last.name = "" /\ last.ns = "n"
    /\ last.err = "NotFound"
    /\ last.current # "" /\ last.current \notin DOMAIN Persisted.Contexts
    /\ DOMAIN Persisted.Contexts # {}
    /\ Persisted.CurrentContext = last.current

\* C12: GetCurrentNamespace returns an error when current-context is empty
\* and when it names no context; otherwise it returns the namespace field
\* of the current context, or "default" when that field is empty.
C12_CurrentNamespace ==
    answer.op = "GetCurrentNamespace" =>
        LET config == Persisted
            got == answer.got
        IN  /\ config.CurrentContext = "" => got.err # ""
            /\ config.CurrentContext \notin DOMAIN config.Contexts => got.err # ""
            /\ config.CurrentContext \in DOMAIN config.Contexts =>
                  /\ got.err = ""
                  /\ got.value =
                        IF config.Contexts[config.CurrentContext].Namespace = ""
                        THEN "default"
                        ELSE config.Contexts[config.CurrentContext].Namespace

\* GetCurrentNamespace has been asked of a document that holds a context
\* while current-context names one it does not hold, and has erred.
C12_Witness ==
    /\ answer.op = "GetCurrentNamespace"
    /\ Persisted.CurrentContext # ""
    /\ Persisted.CurrentContext \notin DOMAIN Persisted.Contexts
    /\ DOMAIN Persisted.Contexts # {}
    /\ answer.got = Result("", "NotFound")

\* C13: after SetNamespaceForContext(n, ns) has succeeded for an existing
\* context n, GetNamespaceForContext(n) returns ns if ns is not empty and
\* "default" if it is; the empty namespace is never the reason for an error.
C13_SetThenGet ==
    [][\A n \in CtxNames, ns \in Namespaces :
          /\ last'.op = "SetNamespaceForContext"
          /\ last'.name = n /\ last'.ns = ns
          /\ n \in DOMAIN Persisted.Contexts
          => /\ last'.err \in {"", "SaveError"}
             /\ last'.err = "" =>
                  GetNamespaceForContext(n)' =
                      Result(IF ns = "" THEN "default" ELSE ns, "")]_vars

\* The empty namespace has been set on a context that had one, and reading
\* it back gives "default".
C13_Witness ==
    /\ last.op = "SetNamespaceForContext" /\ last.err = ""
    /\ last.name \in DOMAIN Persisted.Contexts /\ last.ns = ""
    /\ GetNamespaceForContext(last.name) = Result("default", "")
    /\ \E m \in DOMAIN Persisted.Contexts : Persisted.Contexts[m].Namespace = "n"

\* C14: SetNamespace(ns) is SetNamespaceForContext("", ns); when it
\* succeeds the namespace field of the context current-context names is ns
\* and nothing else of the document has changed.
C14_SetNamespaceFrame ==
    [][\A ns \in Namespaces :
          last'.op = "SetNamespaceForContext" /\ last'.name = "" /\ last'.ns = ns
          => /\ SetNamespace(ns) <=> SetNamespaceForContext("", ns)
             /\ last'.err = "" =>
                LET before == Persisted
                    after == Persisted'
                    cur == before.CurrentContext
                IN  /\ after.CurrentContext = cur
                    /\ DOMAIN after.Contexts = DOMAIN before.Contexts
                    /\ after.Clusters = before.Clusters
                    /\ after.AuthInfos = before.AuthInfos
                    /\ after.Contexts[cur].Namespace = ns
                    /\ \A m \in DOMAIN before.Contexts :
                          /\ after.Contexts[m].Cluster = before.Contexts[m].Cluster
                          /\ after.Contexts[m].AuthInfo = before.Contexts[m].AuthInfo
                          /\ m # cur => after.Contexts[m].Namespace
                                          = before.Contexts[m].Namespace]_vars

\* SetNamespace("n") has succeeded on a document with two contexts; the
\* current one now has namespace n and the other still has none.
C14_Witness ==
    /\ last.op = "SetNamespaceForContext" /\ last.name = "" /\ last.err = ""
    /\ last.ns = "n"
    /\ Persisted.CurrentContext = last.current
    /\ Persisted.Contexts[last.current].Namespace = "n"
    /\ \E m \in DOMAIN Persisted.Contexts :
          m # last.current /\ Persisted.Contexts[m].Namespace = ""

\* The contexts GetNamespacesForContext accepts as contextName: those whose
\* resolved name is a context of the document the call has loaded.
Resolvable(contextName) ==
    Resolve(answer.config, contextName) \in DOMAIN answer.config.Contexts

\* C15: for a context that resolves, whichever of the three calls to the
\* cluster side fails, GetNamespacesForContext returns the fallback list
\* with a nil error, having made each call up to the failing one once and
\* none after it.
C15_FallbackOnFailure ==
    /\ answer.op = "GetNamespacesForContext"
    /\ Resolvable(answer.name) /\ answer.cluster.fails # 0
    => /\ answer.got.err = ""
       /\ answer.got.value = <<"default", "kube-system", "kube-public",
                               "kube-node-lease">>
       /\ answer.got.calls = SubSeq(ClusterCalls, 1, answer.cluster.fails)

\* The namespace List call has failed for the current context, named by
\* the empty argument, and the fallback list has come back with no error.
C15_Witness ==
    /\ answer.op = "GetNamespacesForContext" /\ answer.name = ""
    /\ Resolvable("")
    /\ answer.cluster = [fails |-> 3, items |-> <<"n">>]
    /\ answer.got = Listing(FallBackNamespace, "", ClusterCalls)

\* C16: with no name given and no current context, or with a resolved name
\* that is not a context of the document, GetNamespacesForContext returns
\* an error and no list, and has made no call to the cluster side: it has
\* returned without waiting, the file being the one it loaded.
C16_ValidatesBeforeConnecting ==
    /\ answer.op = "GetNamespacesForContext"
    /\ ~Resolvable(answer.name)
    => /\ answer.got.err = IF answer.name = "" /\ answer.config.CurrentContext = ""
                           THEN "NoCurrentContext" ELSE "NotFound"
       /\ answer.got.value = <<>>
       /\ answer.got.calls = <<>>
       /\ Persisted = answer.config

\* A name the document does not hold has been asked for while the cluster
\* would have answered: the call has erred without reaching the cluster.
C16_Witness ==
    /\ answer.op = "GetNamespacesForContext"
    /\ answer.name # "" /\ answer.name \notin DOMAIN Persisted.Contexts
    /\ DOMAIN Persisted.Contexts # {}
    /\ answer.cluster = [fails |-> 0, items |-> <<"n">>]
    /\ answer.got = Listing(<<>>, "NotFound", <<>>)

(* ------------------------ claims: interleaving ------------------------ *)

\* Invocation p made the latest call of clientcmd.WriteToFile.
SavedLast(p) == mem[p].order > 0 /\ \A q \in Procs : mem[q].order <= mem[p].order

\* C17: with no lock between two invocations on the same file, the file
\* holds exactly the document written by the invocation that saved last:
\* the document that invocation loaded with its own edit applied, whatever
\* the other invocation saved after that load.
C17_LastWriterWins ==
    \A p \in Procs :
        SavedLast(p) /\ mem[p].err = "" =>
            /\ file = Write(Edit(mem[p]))
            /\ Persisted = Edit(mem[p])

\* Invocation 1 loaded, invocation 2 then switched to context b and saved,
\* and invocation 1 saved its namespace change last: the namespace is in
\* the file and the switch to b is not.
C17_Witness ==
    /\ mem[1].stale /\ SavedLast(1) /\ mem[1].err = ""
    /\ mem[1].op = "SetNamespaceForContext" /\ mem[1].name = "a" /\ mem[1].ns = "n"
    /\ mem[2].op = "SwitchContext" /\ mem[2].name = "b" /\ mem[2].err = ""
    /\ mem[2].order = 1
    /\ mem[1].config.CurrentContext = "a"
    /\ Persisted.Contexts["a"].Namespace = "n"
    /\ Persisted.CurrentContext = "a"

(* -------------------------- claims: sorting --------------------------- *)

\* Lexicographic order, said without recursion: a is a proper prefix of b,
\* or they agree up to a place where a has the smaller character.
LexLess(a, b) ==
    \E k \in 0..Len(a) :
        /\ k <= Len(b)
        /\ \A i \in 1..k : a[i] = b[i]
        /\ \/ k = Len(a) /\ k < Len(b)
           \/ k < Len(a) /\ k < Len(b) /\ a[k + 1] < b[k + 1]

Ascending(x) == \A i, j \in DOMAIN x : i < j => ~LexLess(x[j], x[i])

\* How often name occurs in the list.
Count(x, name) == Cardinality({i \in DOMAIN x : x[i] = name})

SameElements(x, y) == \A name \in SortNames : Count(x, name) = Count(y, name)

\* A sort function has been called.
Called == ui.fn \in {"SortContexts", "SortNamespaces"}

\* C18: for a non-empty list, no current name and prioritizeCurrent false,
\* SortContexts and SortNamespaces return a list of the same length with
\* the same elements, each as often as in the input, in ascending
\* lexicographic order.
C18_SortedPermutation ==
    Called /\ ui.names # <<>> /\ ui.current = <<>> /\ ~ui.prioritize =>
        /\ Len(ui.result) = Len(ui.names)
        /\ SameElements(ui.result, ui.names)
        /\ Ascending(ui.result)

\* SortNamespaces has sorted a list that was out of order and held a name
\* twice.
C18_Witness ==
    /\ ui.fn = "SortNamespaces" /\ ui.current = <<>> /\ ~ui.prioritize
    /\ ui.names = <<(<<2>>), (<<1, 2>>), (<<2>>)>>
    /\ ui.result = <<(<<1, 2>>), (<<2>>), (<<2>>)>>

\* C19: when the list holds the (non-empty) current name and
\* prioritizeCurrent is true, the first element returned is the current
\* name and the rest is the ascending list of the other elements: the
\* input's elements less one occurrence of the current name.
C19_CurrentFirst ==
    /\ Called /\ ui.prioritize /\ ui.current # <<>>
    /\ Count(ui.names, ui.current) > 0
    => /\ ui.result[1] = ui.current
       /\ Len(ui.result) = Len(ui.names)
       /\ Ascending(Tail(ui.result))
       /\ \A name \in SortNames :
             Count(Tail(ui.result), name) =
                 Count(ui.names, name) - (IF name = ui.current THEN 1 ELSE 0)

\* SortContexts has moved the current name, last in ascending order, to the
\* front of the other two.
C19_Witness ==
    /\ ui.fn = "SortContexts" /\ ui.prioritize /\ ui.current = <<2>>
    /\ ui.names = <<(<<1, 2>>), (<<2>>), (<<1>>)>>
    /\ ui.result = <<(<<2>>), (<<1>>), (<<1, 2>>)>>

\* C20: whatever the list, the flag and the current name, the caller's
\* slice holds after the call what it held before it: sort.Strings and the
\* append that takes the current name out write to the array of the copy,
\* never to the caller's.
C20_InputUntouched ==
    [][CallSortContexts \/ CallSortNamespaces => ui'.caller = ui.caller]_vars

\* SortContexts has returned a list in another order than the caller's,
\* with the current name moved to the front, and the caller's slice is as
\* it was handed over.
C20_Witness ==
    /\ ui.fn = "SortContexts" /\ ui.prioritize
    /\ ui.names = <<(<<2>>), (<<1, 1>>), (<<1>>)>> /\ ui.current = <<1, 1>>
    /\ ui.result = <<(<<1, 1>>), (<<1>>), (<<2>>)>>
    /\ ui.caller = ui.names

\* C21: with prioritizeCurrent true and a current name that is empty or
\* not in the list, the functions return the list in ascending order, all
\* of its elements and nothing moved to the front; an empty list gives an
\* empty result.
C21_AbsentCurrentOnlySorts ==
    /\ Called /\ ui.prioritize
    /\ ui.current = <<>> \/ Count(ui.names, ui.current) = 0
    => /\ Len(ui.result) = Len(ui.names)
       /\ SameElements(ui.result, ui.names)
       /\ Ascending(ui.result)
       /\ ui.names = <<>> => ui.result = <<>>

\* SortContexts has been asked to put a name in front that the list, which
\* was out of order, does not hold, and has returned the list sorted.
C21_Witness ==
    /\ ui.fn = "SortContexts" /\ ui.prioritize /\ ui.current = <<1, 1>>
    /\ ui.names = <<(<<2>>), (<<1, 2>>), (<<1>>)>>
    /\ ui.result = <<(<<1>>), (<<1, 2>>), (<<2>>)>>

\* C29: for every list, current name and flag the result has the length of
\* the input and holds each name as often as the input does.
C29_ResultIsPermutation ==
    Called => /\ Len(ui.result) = Len(ui.names)
              /\ SameElements(ui.result, ui.names)

\* SortNamespaces has moved one of two occurrences of the current name to
\* the front and kept the other.
C29_Witness ==
    /\ ui.fn = "SortNamespaces" /\ ui.prioritize /\ ui.current = <<2>>
    /\ ui.names = <<(<<2>>), (<<1>>), (<<2>>)>>
    /\ ui.result = <<(<<2>>), (<<1>>), (<<2>>)>>

\* The list in every order its elements can be handed over in.
Reorderings(x) == {[i \in DOMAIN x |-> x[p[i]]] : p \in Permutations(DOMAIN x)}

\* What the function that was called returns for another list.
Again(names) ==
    IF ui.fn = "SortContexts"
    THEN SortContexts(names, ui.current, ui.prioritize).result
    ELSE SortNamespaces(names, ui.current, ui.prioritize).result

\* C30: the result is the same for every order of the input's elements:
\* it depends on which names the list holds and how often, on the current
\* name and on the flag.
C30_OrderIndependent ==
    Called => \A names \in Reorderings(ui.names) : Again(names) = ui.result

\* SortContexts has been called with three different names out of order and
\* the current one last; the list handed over in reverse gives the same.
C30_Witness ==
    /\ ui.fn = "SortContexts" /\ ui.prioritize /\ ui.current = <<1>>
    /\ ui.names = <<(<<2>>), (<<1, 2>>), (<<1>>)>>
    /\ ui.result = <<(<<1>>), (<<1, 2>>), (<<2>>)>>
    /\ Again(<<(<<1>>), (<<1, 2>>), (<<2>>)>>) = ui.result
    /\ Cardinality(Reorderings(ui.names)) > 1

\* C24 as stated: a successful DeleteContext(n) whose cluster a surviving
\* context still names and whose user none names keeps the cluster entry
\* and removes the user entry, and the other way round.
C24_AsStated ==
    [][RanOk("DeleteContext") =>
        LET before == LoadFromFile(file)
            after == LoadFromFile(file')
            ctx == before.Contexts[last'.name]
        IN  /\ (NamesCluster(after, ctx.Cluster) /\ ~NamesAuthInfo(after, ctx.AuthInfo))
                => /\ ctx.Cluster \in before.Clusters => ctx.Cluster \in after.Clusters
                   /\ ctx.AuthInfo \notin after.AuthInfos
            /\ (NamesAuthInfo(after, ctx.AuthInfo) /\ ~NamesCluster(after, ctx.Cluster))
                => /\ ctx.AuthInfo \in before.AuthInfos => ctx.AuthInfo \in after.AuthInfos
                   /\ ctx.Cluster \notin after.Clusters]_vars

\* C24, amended: the same when the name that no surviving context holds
\* is not the empty string; an entry named by the empty string stays.
C24_CleanupsIndependent ==
    [][RanOk("DeleteContext") =>
        LET before == LoadFromFile(file)
            after == LoadFromFile(file')
            ctx == before.Contexts[last'.name]
        IN  /\ (NamesCluster(after, ctx.Cluster) /\ ~NamesAuthInfo(after, ctx.AuthInfo))
                => /\ ctx.Cluster \in before.Clusters => ctx.Cluster \in after.Clusters
                   /\ ctx.AuthInfo # "" => ctx.AuthInfo \notin after.AuthInfos
                   /\ ctx.AuthInfo = "" => ("" \in after.AuthInfos <=> "" \in before.AuthInfos)
            /\ (NamesAuthInfo(after, ctx.AuthInfo) /\ ~NamesCluster(after, ctx.Cluster))
                => /\ ctx.AuthInfo \in before.AuthInfos => ctx.AuthInfo \in after.AuthInfos
                   /\ ctx.Cluster # "" => ctx.Cluster \notin after.Clusters
                   /\ ctx.Cluster = "" => ("" \in after.Clusters <=> "" \in before.Clusters)]_vars

\* A deletion has succeeded that took the last reference to cluster x, whose
\* entry is gone, while user u, which a surviving context of another
\* cluster names, has kept its entry.
C24_Witness ==
    /\ last.op = "DeleteContext" /\ last.err = ""
    /\ "x" \in DOMAIN released /\ released["x"] = 1
    /\ "x" \notin Persisted.Clusters /\ ~NamesCluster(Persisted, "x")
    /\ NamesCluster(Persisted, "y")
    /\ "u" \in Persisted.AuthInfos /\ NamesAuthInfo(Persisted, "u")

\* C25: a successful DeleteContext(n) removes the context n and no other
\* and leaves every other context with its three fields; of the cluster
\* entries it removes at most the one n's cluster field names, of the user
\* entries at most the one n's user field names, and it adds none.
C25_DeleteFrame ==
    [][RanOk("DeleteContext") =>
        LET before == LoadFromFile(file)
            after == LoadFromFile(file')
            ctx == before.Contexts[last'.name]
        IN  /\ DOMAIN after.Contexts = (DOMAIN before.Contexts) \ {last'.name}
            /\ \A m \in DOMAIN after.Contexts : after.Contexts[m] = before.Contexts[m]
            /\ after.Clusters \subseteq before.Clusters
            /\ before.Clusters \ after.Clusters \subseteq {ctx.Cluster}
            /\ after.AuthInfos \subseteq before.AuthInfos
            /\ before.AuthInfos \ after.AuthInfos \subseteq {ctx.AuthInfo}]_vars

\* A deletion has succeeded that removed the entry of cluster x; another
\* context, with its namespace, the entry of cluster y and the entry of
\* user u are still there.
C25_Witness ==
    /\ last.op = "DeleteContext" /\ last.err = ""
    /\ "x" \in DOMAIN released /\ "x" \notin Persisted.Clusters
    /\ \E m \in DOMAIN Persisted.Contexts :
          m # last.name /\ Persisted.Contexts[m] = Context("y", "u", "n")
    /\ "y" \in Persisted.Clusters /\ "u" \in Persisted.AuthInfos

(* ------------------------- claims: the commands ----------------------- *)

\* The command has come to its end without an exit, and it was
\* `kontext <ctx> -n <ns>` in either spelling, ctx a context of the
\* document it began on and ns another word than ctx.
CombinedDone ==
    /\ mem.pc = "done" /\ ~mem.exit
    /\ mem.cmd \in {"kontext", "kontext switch"}
    /\ Len(mem.line) = 3 /\ mem.line[2] = SetNamespaceFlag
    /\ mem.line[1] \in DOMAIN mem.start.Contexts
    /\ mem.line[3] # mem.line[1]

DeleteStep == mem' # mem /\ mem'.cmd = "kontext delete"

\* C26: the delete command changes the file, and calls DeleteContext, only
\* in the step in which the confirmation prompt is answered with yes; when
\* the selector is left, the named context does not exist, or the prompt
\* is declined or fails, no call has been made, no step of the command has
\* changed the file, and with no other invocation at work the document is
\* the one the command began on.
C26_DeleteOnlyConfirmed ==
    [][DeleteStep =>
        /\ (file' # file \/ mem'.calls # <<>>) =>
              (mem.pc = "ConfirmAction" /\ mem'.prompt = "yes")
        /\ (\/ mem'.cancelled
            \/ mem'.missing
            \/ mem'.prompt \in {"ErrAbort", "ErrInterrupt"})
           => /\ mem'.pc = "done"
              /\ mem'.calls = <<>>
              /\ file' = file
              /\ last'.op = "none" => LoadFromFile(file') = mem'.start]_vars

\* `kontext delete a` has been declined at the prompt: the command has
\* returned without a call and a is still a context of the document.
C26_Witness ==
    /\ mem.pc = "done" /\ ~mem.exit
    /\ mem.cmd = "kontext delete" /\ mem.line = <<"a">>
    /\ mem.prompt = "ErrAbort"
    /\ mem.calls = <<>>
    /\ "a" \in DOMAIN Persisted.Contexts /\ Persisted.CurrentContext = "a"

\* A picker has been put on the screen.
Picking == ui.fn \in {"runSwitch", "deleteCmd.Run"} /\ ui.shown

\* C23: in the pickers of switch and delete, when the current context is
\* one of the contexts the list starts with it and goes on with all the
\* other names in ascending order, and the cursor is at position 0; when it
\* is not, the list is all the names in ascending order and the cursor is
\* at position 0.
C23_PickerStartsAtCurrent ==
    Picking =>
        LET items == ui.selector.Items
        IN  /\ ui.selector.CursorPos = 0
            /\ IF Count(ui.names, ui.current) > 0
               THEN /\ items[1] = ui.current
                    /\ Ascending(Tail(items))
                    /\ Count(Tail(items), ui.current) = 0
                    /\ SameElements(items, ui.names)
                    /\ Len(items) = Len(ui.names)
               ELSE /\ Ascending(items)
                    /\ SameElements(items, ui.names)
                    /\ Len(items) = Len(ui.names)

\* The picker of the delete command is up for three contexts of which the
\* current one sorts last: it is the first item, the cursor is on it and
\* the other two follow in order.
C23_Witness ==
    /\ ui.fn = "deleteCmd.Run" /\ ui.shown
    /\ ui.current = <<2>> /\ ui.names = <<(<<1, 2>>), (<<2>>), (<<1>>)>>
    /\ ui.selector.Items = <<(<<2>>), (<<1>>), (<<1, 2>>)>>
    /\ ui.selector.CursorPos = 0

(* ------------------- claims: interleaved invocations ------------------ *)

\* C28: two invocations of SwitchContext, DeleteContext and
\* SetNamespaceForContext run together from a document in which
\* current-context is empty or names a context and every context's cluster
\* and user have their entries; however their loads and saves interleave,
\* and however a save ends, the document in the file is always such a
\* document.
C28_InterleavedKeepInvariants ==
    /\ CurrentResolves(Persisted)
    /\ RefsResolve(Persisted)

\* Invocation 1 loaded while b was there, invocation 2 then deleted b and
\* saved, and invocation 1 saved its switch to b last: b is back in the
\* file, with its cluster, and it is the current context.
C28_Witness ==
    /\ mem[1].stale /\ SavedLast(1) /\ mem[1].err = ""
    /\ mem[1].op = "SwitchContext" /\ mem[1].name = "b"
    /\ mem[2].op = "DeleteContext" /\ mem[2].name = "b" /\ mem[2].err = ""
    /\ mem[2].order = 1
    /\ Persisted.CurrentContext = "b"
    /\ "b" \in DOMAIN Persisted.Contexts
    /\ Persisted.Contexts["b"].Cluster \in Persisted.Clusters

(* ------------------------ reads between writes ------------------------ *)

\* GetContexts: the contexts map of the document, as loaded.
GetContexts == Result(GetKubeConfig.Contexts, "")

\* A read is made by a reader that is not inside a call, and returns: what
\* it was and what came back.
Reads(op, contextName, cluster, got) ==
    /\ answer.op # "Namespaces().List"
    /\ answer' = Answer(op, contextName, cluster, got)
    /\ UNCHANGED <<file, last, released, mem, ui>>

ReadGetContexts == Reads("GetContexts", "", NoCluster, GetContexts)

\* A GetCurrentContext that unsets a current-context naming no context and
\* saves the document.
ReadGetCurrentContextRepairing ==
    LET config == GetKubeConfig
    IN  /\ answer.op # "Namespaces().List"
        /\ answer' = Answer("GetCurrentContext", "", NoCluster,
                            Result(config.CurrentContext, ""))
        /\ file' = IF CurrentResolves(config)
                   THEN file
                   ELSE Write([config EXCEPT !.CurrentContext = ""])
        /\ UNCHANGED <<last, released, mem, ui>>

ReadGetCurrentContext ==
    Reads("GetCurrentContext", "", NoCluster, Result(GetCurrentContext, ""))

ReadGetCurrentNamespace ==
    Reads("GetCurrentNamespace", "", NoCluster, GetCurrentNamespace)

ReadGetNamespaceForContext(contextName) ==
    Reads("GetNamespaceForContext", contextName, NoCluster,
          GetNamespaceForContext(contextName))

\* GetNamespacesForContext up to its request to the cluster: the file is
\* loaded, and the call returns at once unless it comes to ask the cluster
\* for the list.
ReadGetNamespacesForContext(contextName, cluster) ==
    /\ answer.op # "Namespaces().List"
    /\ LET asked == Asked(contextName, cluster)
       IN  answer' = IF asked.op = "Namespaces().List"
                     THEN asked
                     ELSE Answer(asked.op, contextName, cluster, asked.got)
    /\ UNCHANGED <<file, last, released, mem, ui>>

\* The cluster side has answered and the call returns; the operations of
\* MixedNext may have written the file since the call loaded it.
ReadGetNamespacesForContextReturns ==
    /\ answer.op = "Namespaces().List"
    /\ answer' = Answer(Answered.op, answer.name, answer.cluster, Answered.got)
    /\ UNCHANGED <<file, last, released, mem, ui>>

ReadNext ==
    \/ ReadGetContexts
    \/ ReadGetCurrentContext
    \/ ReadGetCurrentNamespace
    \/ \E n \in NameArgs : ReadGetNamespaceForContext(n)
    \/ \E n \in NameArgs, cluster \in ReadClusters :
          ReadGetNamespacesForContext(n, cluster)
    \/ ReadGetNamespacesForContextReturns

\* The documents reads and writes are mixed on: any subset of the contexts,
\* all on one cluster, each with or without a namespace; current-context
\* may be unset or name a context that is not there.
MixedConfigs == ConfigsOver({"x"}, {{"x"}}, {"u"}, {{"u"}})

MixedInit ==
    /\ \E c \in MixedConfigs : file = Write(c)
    /\ last = [op |-> "none", name |-> "", ns |-> "", err |-> "",
               current |-> file.currentContext]
    /\ released = <<>>
    /\ mem = Unused
    /\ ui = Unused
    /\ answer = NoAnswer

\* Reads and writes in any order.
MixedNext == Next \/ ReadNext

SpecMixed == MixedInit /\ [][MixedNext]_vars

\* The step is a read: the mutating operations leave answer as it is.
Read == answer' # answer

\* C27: GetContexts, GetCurrentContext, GetCurrentNamespace,
\* GetNamespaceForContext and GetNamespacesForContext, wherever they come
\* in a sequence of operations and whether they return an error or not,
\* leave the file as it was, in the step that loads it and in the step
\* that returns from the cluster side, and what they return is taken from
\* the document as it was last saved when they loaded the file: the
\* contexts and the current-context of that document, and for the other
\* three what the operation gives for it.
C27_ReadsDoNotWrite ==
    [][Read =>
        /\ file' = file
        /\ last' = last
        /\ LET saved == IF answer.op = "Namespaces().List"
                        THEN answer.config
                        ELSE LoadFromFile(file)
               got == answer'.got
           IN  CASE answer'.op = "Namespaces().List" ->
                        answer'.config = saved
                 [] answer'.op = "GetContexts" ->
                        got = Result(saved.Contexts, "")
                 [] answer'.op = "GetCurrentContext" ->
                        got = Result(saved.CurrentContext, "")
                 [] answer'.op = "GetCurrentNamespace" ->
                        got = CurrentNamespaceOf(saved)
                 [] answer'.op = "GetNamespaceForContext" ->
                        IF answer'.name \in DOMAIN saved.Contexts
                        THEN got.err = ""
                             /\ got.value \in {saved.Contexts[answer'.name].Namespace,
                                               "default"}
                        ELSE got.err = "NotFound"
                 [] answer'.op = "GetNamespacesForContext" ->
                        LET name == IF answer'.name = ""
                                    THEN saved.CurrentContext ELSE answer'.name
                        IN  IF name = ""
                            THEN got.err = "NoCurrentContext"
                            ELSE IF name \notin DOMAIN saved.Contexts
                            THEN got.err = "NotFound"
                            ELSE got.err = ""
                                 /\ got.value \in {answer'.cluster.items,
                                                   FallBackNamespace}]_vars

\* After a namespace was set and saved, GetNamespaceForContext has been
\* asked about a context that is not there: it returned the error, and the
\* namespace that was saved is still in the file.
C27_Witness ==
    /\ answer.op = "GetNamespaceForContext" /\ answer.got.err = "NotFound"
    /\ last.op = "SetNamespaceForContext" /\ last.err = "" /\ last.ns = "n"
    /\ last.name # "" /\ last.name \in DOMAIN Persisted.Contexts
    /\ Persisted.Contexts[last.name].Namespace = "n"

====
